---- MODULE Spec2Model ----
(***************************************************************************)
(* Model of the in-memory analytics backend (backend/app): the DataManager *)
(* tables and their loader, the rollup computation, the query methods, and *)
(* the memoized metrics of the service layer.                              *)
(*                                                                         *)
(* Representation                                                          *)
(*   DataFrame      [cols |-> set of column names, rows |-> Seq(record)]   *)
(*   None (no df)   a table with no column at all                          *)
(*   int / float    integers (costs in cost units, accuracy in 1/100)      *)
(*   NaN / NaT      NaN (an integer no cell of the data uses)              *)
(*   float mean     a reduced fraction <<num, den>>, NaNQ when undefined   *)
(*   str            a sequence of character codes                          *)
(*   call result    [raised |-> exception name or "", value |-> ...]       *)
(***************************************************************************)
EXTENDS Integers, Sequences, FiniteSets, TLC

\* ------------------------------------------------------------------ bounds
MaxTrials == 2
MaxRuns == 2
MaxExps == 2
MaxLimit == 2

\* ------------------------------------------------------------ null values
NaN == -1
BadCell == -2
NaNQ == <<>>
None == <<"None">>

\* ---------------------------------------------------------------- helpers
Max(a, b) == IF a >= b THEN a ELSE b

RECURSIVE Gcd(_, _)
Gcd(a, b) == IF b = 0 THEN a ELSE Gcd(b, a % b)

\* the float n/d, kept exact as a reduced fraction
Frac(n, d) == LET g == Gcd(n, d) IN IF g = 0 THEN <<0, 1>> ELSE <<n \div g, d \div g>>

RECURSIVE SumSeq(_)
SumSeq(s) == IF s = <<>> THEN 0 ELSE Head(s) + SumSeq(Tail(s))

Col(df, c) == [i \in 1..Len(df.rows) |-> df.rows[i][c]]

NotNa(x) == x # NaN

\* Series.sum(): NaN cells are skipped, the empty sum is 0
series_sum(s) == SumSeq(SelectSeq(s, NotNa))

\* Series.count(): number of non-null cells
series_count(s) == Len(SelectSeq(s, NotNa))

\* Series.mean(): mean of the non-null cells, NaN when there is none
series_mean(s) ==
    IF series_count(s) = 0 THEN NaNQ ELSE Frac(series_sum(s), series_count(s))

None_df == [cols |-> {}, rows |-> <<>>]

Ok(v) == [raised |-> "", value |-> v]
Raised(e) == [raised |-> e, value |-> None]

\* ------------------------------------------------------------- normalizer
\* pd.to_datetime(errors="coerce"): an unparseable cell becomes NaT
parse_dt(c) == IF c < 0 THEN NaN ELSE c

\* Series.str.lower() on the status column
safe_lower(s) ==
    CASE s = "FINISHED" -> "finished"
      [] s = "Failed" -> "failed"
      [] s = "FAILED" -> "failed"
      [] OTHER -> s

rename_map(c) ==
    CASE c = "experiment name" -> "name"
      [] c = "Experiment Name" -> "name"
      [] c = "is_del" -> "is_deleted"
      [] OTHER -> c

\* rename the columns of one row
\* (f maps every column of cols to its new name)
RenameRow(r, cols, f) ==
    [c \in {f[k] : k \in cols} |-> r[CHOOSE k \in cols : f[k] = c]]

\* df.rename(columns=f)
RenameDf(df, f) ==
    [cols |-> {f[k] : k \in df.cols},
     rows |-> [i \in 1..Len(df.rows) |-> RenameRow(df.rows[i], df.cols, f)]]

\* df[c] = series
SetCol(df, c, series) ==
    [cols |-> df.cols,
     rows |-> [i \in 1..Len(df.rows) |-> [df.rows[i] EXCEPT ![c] = series[i]]]]

\* _parse_dt(df[c])
parse_dt_col(df, c) == [i \in 1..Len(df.rows) |-> parse_dt(df.rows[i][c])]

\* _safe_lower(df[c])
safe_lower_col(df, c) == [i \in 1..Len(df.rows) |-> safe_lower(df.rows[i][c])]

\* lines 79-95: read experiments.csv, parse created_at, rename the header quirks
load_experiments(csv) ==
    IF csv.exp = None_df THEN Raised("FileNotFoundError")
    ELSE IF "created_at" \notin csv.exp.cols THEN Raised("KeyError")
    ELSE LET e == SetCol(csv.exp, "created_at", parse_dt_col(csv.exp, "created_at"))
         IN Ok(RenameDf(e, [c \in e.cols |-> rename_map(c)]))

\* lines 98-107: read trials.csv, parse created_at, lower-case the status
load_trials(csv) ==
    IF csv.tri = None_df THEN Raised("FileNotFoundError")
    ELSE IF "created_at" \notin csv.tri.cols THEN Raised("KeyError")
    ELSE LET t == SetCol(csv.tri, "created_at", parse_dt_col(csv.tri, "created_at"))
         IN Ok(IF "status" \in t.cols THEN SetCol(t, "status", safe_lower_col(t, "status")) ELSE t)

\* lines 110-114: read runs.csv, parse created_at
load_runs(csv) ==
    IF csv.run = None_df THEN Raised("FileNotFoundError")
    ELSE IF "created_at" \notin csv.run.cols THEN Raised("KeyError")
    ELSE Ok(SetCol(csv.run, "created_at", parse_dt_col(csv.run, "created_at")))

\* ------------------------------------------------------------- aggregator
TrialRollupCols == {"total_cost", "total_tokens", "avg_latency_ms", "run_count"}
ExpRollupCols == {"avg_accuracy", "total_cost", "total_trials", "total_runs"}

\* DataFrame.merge suffixes a column that both sides carry
suffix_x(c) ==
    CASE c = "total_cost" -> "total_cost_x"
      [] c = "total_tokens" -> "total_tokens_x"
      [] c = "avg_latency_ms" -> "avg_latency_ms_x"
      [] c = "run_count" -> "run_count_x"
      [] c = "avg_accuracy" -> "avg_accuracy_x"
      [] c = "total_trials" -> "total_trials_x"
      [] c = "total_runs" -> "total_runs_x"
      [] OTHER -> c

suffix_y(c) ==
    CASE c = "total_cost" -> "total_cost_y"
      [] c = "total_tokens" -> "total_tokens_y"
      [] c = "avg_latency_ms" -> "avg_latency_ms_y"
      [] c = "run_count" -> "run_count_y"
      [] c = "avg_accuracy" -> "avg_accuracy_y"
      [] c = "total_trials" -> "total_trials_y"
      [] c = "total_runs" -> "total_runs_y"
      [] OTHER -> c

\* rows of df whose column c equals k
RowsWhere(df, c, k) == SelectSeq(df.rows, LAMBDA r : r[c] = k)

\* groupby keys: the distinct non-null values of the key column
GroupKeys(df, c) == {df.rows[i][c] : i \in 1..Len(df.rows)} \ {NaN}

\* lines 148-156: runs grouped by trial_id
runs_agg(runs, k) ==
    LET g == [cols |-> runs.cols, rows |-> RowsWhere(runs, "trial_id", k)]
    IN [total_cost |-> series_sum(Col(g, "costs")),
        total_tokens |-> series_sum(Col(g, "tokens")),
        avg_latency_ms |-> series_mean(Col(g, "latency_ms")),
        run_count |-> series_count(Col(g, "id"))]

\* the cells a left merge gives a row without a match
TrialNoMatch ==
    [total_cost |-> NaN, total_tokens |-> NaN, avg_latency_ms |-> NaNQ, run_count |-> NaN]

ExpNoMatch ==
    [avg_accuracy |-> NaNQ, total_cost |-> NaN, total_trials |-> NaN, total_runs |-> NaN]

\* left.merge(agg, left_on="id", right_on=key, how="left").drop(columns=[key]):
\* every left row once, in the left order, with the aggregate of its id
\* (agg maps every key of the grouped side to its aggregate row)
merge_left(left, agg, nomatch, newcols) ==
    LET both == left.cols \cap newcols
        lmap == [c \in left.cols |-> IF c \in both THEN suffix_x(c) ELSE c]
        rmap == [c \in newcols |-> IF c \in both THEN suffix_y(c) ELSE c]
        l == RenameDf(left, lmap)
        right(r) == IF r["id"] \in DOMAIN agg THEN agg[r["id"]] ELSE nomatch
    IN [cols |-> l.cols \cup {rmap[c] : c \in newcols},
        rows |-> [i \in 1..Len(left.rows) |->
                    l.rows[i] @@ RenameRow(right(left.rows[i]), newcols, rmap)]]

fillna0(x) == IF x = NaN THEN 0 ELSE x

\* df.fillna({c: 0})
fillna_col(df, c) ==
    SetCol(df, c, [i \in 1..Len(df.rows) |-> fillna0(df.rows[i][c])])

\* lines 163-167: total_cost, total_tokens and run_count are filled with 0,
\* avg_latency_ms is not in the fill map and keeps its NaN
fillna_trials(df) ==
    fillna_col(fillna_col(fillna_col(df, "total_cost"), "total_tokens"), "run_count")

\* lines 158-160: the merged trials table, before the fill
merge_trials(trials, runs) ==
    merge_left(trials, [k \in GroupKeys(runs, "trial_id") |-> runs_agg(runs, k)],
               TrialNoMatch, TrialRollupCols)

\* the same with total_runs counting the trials that have a run_count
exp_agg_counting_trials(trials, k) ==
    LET g == [cols |-> trials.cols, rows |-> RowsWhere(trials, "experiment_id", k)]
    IN [avg_accuracy |-> series_mean(Col(g, "accuracy")),
        total_cost |-> series_sum(Col(g, "total_cost")),
        total_trials |-> series_count(Col(g, "id")),
        total_runs |-> series_count(Col(g, "run_count"))]

\* lines 171-179: trials grouped by experiment_id; accuracy is averaged over
\* every trial of the group that has one, whatever its status
exp_agg_from_trials(trials, k) ==
    LET g == [cols |-> trials.cols, rows |-> RowsWhere(trials, "experiment_id", k)]
    IN [avg_accuracy |-> series_mean(Col(g, "accuracy")),
        total_cost |-> series_sum(Col(g, "total_cost")),
        total_trials |-> series_count(Col(g, "id")),
        total_runs |-> series_sum(Col(g, "run_count"))]

\* lines 180-182
merge_experiments(exps, trials) ==
    merge_left(exps,
               [k \in GroupKeys(trials, "experiment_id") |-> exp_agg_from_trials(trials, k)],
               ExpNoMatch, ExpRollupCols)

\* lines 184-188: avg_accuracy is filled with NaN, the three others with 0
fillna_experiments(df) ==
    fillna_col(fillna_col(fillna_col(df, "total_cost"), "total_trials"), "total_runs")

RunAggNeeds == {"trial_id", "costs", "tokens", "latency_ms", "id"}
TrialAggNeeds == {"experiment_id", "accuracy", "total_cost", "id", "run_count"}

\* The manager's data as one value: the three tables and the flag.
DM(e, t, r, i) == [experiments_df |-> e, trials_df |-> t, runs_df |-> r, initialized |-> i]

\* lines 146-167, first block of _precompute_aggregations, as the sequence of
\* its stores to self.trials_df: [dm, raised]
precompute_trials(dm) ==
    IF dm.runs_df = None_df \/ dm.trials_df = None_df THEN [dm |-> dm, raised |-> ""]
    ELSE IF ~(RunAggNeeds \subseteq dm.runs_df.cols) \/ "id" \notin dm.trials_df.cols
    THEN [dm |-> dm, raised |-> "KeyError"]
    ELSE LET m == merge_trials(dm.trials_df, dm.runs_df)
         IN IF ~(TrialRollupCols \subseteq m.cols)
            THEN [dm |-> [dm EXCEPT !.trials_df = m], raised |-> "KeyError"]
            ELSE [dm |-> [dm EXCEPT !.trials_df = fillna_trials(m)], raised |-> ""]

\* lines 169-188, second block: [dm, raised]
precompute_experiments(dm) ==
    IF dm.trials_df = None_df \/ dm.experiments_df = None_df THEN [dm |-> dm, raised |-> ""]
    ELSE IF ~(TrialAggNeeds \subseteq dm.trials_df.cols) \/ "id" \notin dm.experiments_df.cols
    THEN [dm |-> dm, raised |-> "KeyError"]
    ELSE LET m == merge_experiments(dm.experiments_df, dm.trials_df)
         IN IF ~(ExpRollupCols \subseteq m.cols)
            THEN [dm |-> [dm EXCEPT !.experiments_df = m], raised |-> "KeyError"]
            ELSE [dm |-> [dm EXCEPT !.experiments_df = fillna_experiments(m)], raised |-> ""]

\* lines 144-188
precompute_aggregations(dm) ==
    LET a == precompute_trials(dm)
    IN IF a.raised # "" THEN a ELSE precompute_experiments(a.dm)

\* lines 73-140 run to the end without interleaving: [dm, raised, cleared].
\* A failure before line 117 leaves the manager as it was; a failure in the
\* rollups leaves the tables stored so far, the flag and the cache untouched.
initialize_run(dm, csv) ==
    LET e == load_experiments(csv)
        t == load_trials(csv)
        r == load_runs(csv)
    IN IF e.raised # "" THEN [dm |-> dm, raised |-> e.raised, cleared |-> FALSE]
       ELSE IF t.raised # "" THEN [dm |-> dm, raised |-> t.raised, cleared |-> FALSE]
       ELSE IF r.raised # "" THEN [dm |-> dm, raised |-> r.raised, cleared |-> FALSE]
       ELSE LET stored == DM(e.value, t.value, r.value, dm.initialized)
                p == precompute_aggregations(stored)
            IN IF p.raised # "" THEN [dm |-> p.dm, raised |-> p.raised, cleared |-> FALSE]
               ELSE [dm |-> [p.dm EXCEPT !.initialized = TRUE], raised |-> "", cleared |-> TRUE]

\* ------------------------------------------------------------ strings, sort
\* str.lower() of one character code
lower(c) == IF c \in 65..90 THEN c + 32 ELSE c

\* the order of Python str values: by code point, a proper prefix first
RECURSIVE str_less(_, _)
str_less(a, b) ==
    IF b = <<>> THEN FALSE
    ELSE IF a = <<>> THEN TRUE
    ELSE IF Head(a) # Head(b) THEN Head(a) < Head(b)
    ELSE str_less(Tail(a), Tail(b))

\* Series.str.contains(pat, case=False): pat is a regular expression, in which
\* "." stands for any character and a letter for itself in either case
char_match(p, c) == p = 46 \/ lower(p) = lower(c)

str_contains(pat, s) ==
    \E i \in 0..Len(s) :
        /\ i + Len(pat) <= Len(s)
        /\ \A k \in 1..Len(pat) : char_match(pat[k], s[i + k])

\* the rank of a sort key among the keys of a column (NaN has none)
KeyLess(a, b, textual) == IF textual THEN str_less(a, b) ELSE a < b

IsNull(x, textual) == IF textual THEN FALSE ELSE x = NaN

\* DataFrame.sort_values(by, ascending): rows in key order, rows with equal
\* keys in their previous order, rows with a null key last
sort_values(rows, by, ascending, textual) ==
    LET n == Len(rows)
        key(i) == rows[i][by]
        before(j, i) ==
            IF IsNull(key(i), textual) THEN ~IsNull(key(j), textual) \/ j < i
            ELSE /\ ~IsNull(key(j), textual)
                 /\ \/ IF ascending THEN KeyLess(key(j), key(i), textual)
                                    ELSE KeyLess(key(i), key(j), textual)
                    \/ key(j) = key(i) /\ j < i
        pos(i) == 1 + Cardinality({j \in 1..n : before(j, i)})
    IN [p \in 1..n |-> rows[CHOOSE i \in 1..n : pos(i) = p]]

\* a slice that runs one row too far
iloc_one_more(rows, offset, limit) ==
    LET lo == IF offset < Len(rows) THEN offset ELSE Len(rows)
        hi == IF offset + limit + 1 < Len(rows) THEN offset + limit + 1 ELSE Len(rows)
    IN [i \in 1..(hi - lo) |-> rows[lo + i]]

\* seq[offset : offset + limit]
iloc(rows, offset, limit) ==
    LET lo == IF offset < Len(rows) THEN offset ELSE Len(rows)
        hi == IF offset + limit < Len(rows) THEN offset + limit ELSE Len(rows)
    IN [i \in 1..(hi - lo) |-> rows[lo + i]]

\* ------------------------------------------------------------------ queries
NoFilter == <<>>
TextCols == {"name", "project_id"}

\* lines 204-213: the four filters, each applied when it is given
apply_filters(rows, filters) ==
    LET f1 == IF filters.name # NoFilter
              THEN SelectSeq(rows, LAMBDA r : str_contains(filters.name, r["name"]))
              ELSE rows
        f2 == IF filters.project_id # NoFilter
              THEN SelectSeq(f1, LAMBDA r : r["project_id"] = filters.project_id)
              ELSE f1
        f3 == IF filters.created_after # NaN
              THEN SelectSeq(f2, LAMBDA r : r["created_at"] # NaN
                                            /\ r["created_at"] >= filters.created_after)
              ELSE f2
    IN IF filters.created_before # NaN
       THEN SelectSeq(f3, LAMBDA r : r["created_at"] # NaN
                                     /\ r["created_at"] <= filters.created_before)
       ELSE f3

\* lines 192-222, DataManager.get_experiments: works on a copy of the table
get_experiments(dm, offset, limit, filters, sort_by, sort_order) ==
    IF dm.experiments_df = None_df THEN Raised("AttributeError")
    ELSE IF \/ filters.name # NoFilter /\ "name" \notin dm.experiments_df.cols
            \/ filters.project_id # NoFilter /\ "project_id" \notin dm.experiments_df.cols
    THEN Raised("KeyError")
    ELSE LET df == apply_filters(dm.experiments_df.rows, filters)
             sorted == IF sort_by \in dm.experiments_df.cols
                       THEN sort_values(df, sort_by, sort_order = "asc", sort_by \in TextCols)
                       ELSE df
         IN Ok([records |-> iloc(sorted, offset, limit), total |-> Len(df)])

\* numerator and denominator exchanged
success_rate_swapped(finished, total_trials) == Frac(total_trials * 100, Max(finished, 1))

\* lines 271-274
success_rate(finished, total_trials) == Frac(finished * 100, Max(total_trials, 1))

\* lines 248-288, DataManager.get_dashboard_stats without its lru_cache
compute_dashboard_stats(dm) ==
    IF dm.experiments_df = None_df \/ dm.trials_df = None_df \/ dm.runs_df = None_df
    THEN Raised("TypeError")
    ELSE IF \/ ~({"costs", "latency_ms"} \subseteq dm.runs_df.cols)
            \/ ~({"status", "accuracy"} \subseteq dm.trials_df.cols)
    THEN Raised("KeyError")
    ELSE LET total_trials == Len(dm.trials_df.rows)
             status == Col(dm.trials_df, "status")
             finished == SelectSeq(dm.trials_df.rows, LAMBDA r : r["status"] = "finished")
             avg_accuracy == series_mean([i \in 1..Len(finished) |-> finished[i]["accuracy"]])
             avg_latency_ms == series_mean(Col(dm.runs_df, "latency_ms"))
         IN Ok([total_experiments |-> Len(dm.experiments_df.rows),
                total_trials |-> total_trials,
                total_runs |-> Len(dm.runs_df.rows),
                total_cost |-> series_sum(Col(dm.runs_df, "costs")),
                avg_accuracy |-> IF avg_accuracy # NaNQ THEN avg_accuracy ELSE None,
                avg_latency_ms |-> IF avg_latency_ms # NaNQ THEN avg_latency_ms ELSE None,
                active_trials |-> Len(SelectSeq(status, LAMBDA x : x \in {"pending", "running"})),
                failed_trials |-> Len(SelectSeq(status, LAMBDA x : x = "failed")),
                success_rate |-> success_rate(Len(finished), total_trials)])

\* lines 293-300: trials joined to (id, name) of their experiment and grouped
\* by (experiment_id, name); a trial without a matching experiment has a null
\* name and its group is dropped
cost_groups(dm) ==
    {<<t["experiment_id"], e["name"]>> :
        <<t, e>> \in {<<a, b>> \in
            {dm.trials_df.rows[i] : i \in 1..Len(dm.trials_df.rows)}
            \X {dm.experiments_df.rows[i] : i \in 1..Len(dm.experiments_df.rows)} :
            a["experiment_id"] # NaN /\ a["experiment_id"] = b["id"]}}

\* the merged rows of one group: one per (trial, experiment row) pair
group_rows(dm, g) ==
    LET ts == RowsWhere(dm.trials_df, "experiment_id", g[1])
        k == Len(SelectSeq(dm.experiments_df.rows,
                           LAMBDA e : e["id"] = g[1] /\ e["name"] = g[2]))
    IN [i \in 1..(Len(ts) * k) |-> ts[((i - 1) % Len(ts)) + 1]]

\* groupby sorts its groups by key: experiment_id, then name
group_before(a, b) == a[1] < b[1] \/ (a[1] = b[1] /\ str_less(a[2], b[2]))

grouped_costs(dm) ==
    LET G == cost_groups(dm)
        pos(g) == 1 + Cardinality({h \in G : group_before(h, g)})
    IN [p \in 1..Cardinality(G) |->
          LET g == CHOOSE h \in G : pos(h) = p
              rows == group_rows(dm, g)
          IN [experiment_id |-> g[1], name |-> g[2],
              total_cost |-> series_sum([i \in 1..Len(rows) |-> rows[i]["total_cost"]]),
              run_count |-> series_sum([i \in 1..Len(rows) |-> rows[i]["run_count"]])]]

\* line 302: the grand total the percentages are taken of
grand_total(grouped) == SumSeq([i \in 1..Len(grouped) |-> grouped[i].total_cost])

\* the share left as a fraction of 1
percentage_unscaled(cost, total_cost) ==
    IF total_cost > 0 THEN Frac(cost, total_cost) ELSE <<0, 1>>

\* line 311
percentage(cost, total_cost) ==
    IF total_cost > 0 THEN Frac(cost * 100, total_cost) ELSE <<0, 1>>

\* reverse=True left out
lowest_spend_first(result) == sort_values(result, "total_cost", TRUE, FALSE)

\* line 316, sorted(result, key=total_cost, reverse=True): highest spend first,
\* equal spends in their previous order
highest_spend_first(result) == sort_values(result, "total_cost", FALSE, FALSE)

\* lines 290-316, DataManager.get_cost_by_experiment
get_cost_by_experiment(dm) ==
    IF dm.experiments_df = None_df \/ dm.trials_df = None_df THEN Raised("AttributeError")
    ELSE IF \/ ~({"id", "name"} \subseteq dm.experiments_df.cols)
            \/ ~({"experiment_id", "total_cost", "run_count"} \subseteq dm.trials_df.cols)
    THEN Raised("KeyError")
    ELSE LET grouped == grouped_costs(dm)
             total_cost == grand_total(grouped)
             result == [i \in 1..Len(grouped) |->
                          [experiment_id |-> grouped[i].experiment_id,
                           experiment_name |-> grouped[i].name,
                           total_cost |-> grouped[i].total_cost,
                           percentage |-> percentage(grouped[i].total_cost, total_cost),
                           run_count |-> grouped[i].run_count]]
         IN Ok(highest_spend_first(result))

\* ------------------------------------------------------------ service layer
\* models.py 85-96, DashboardStats(**stats): avg_accuracy and avg_latency_ms
\* are declared float, so a None is rejected by the validation
DashboardStats(stats) ==
    IF stats.avg_accuracy = None \/ stats.avg_latency_ms = None
    THEN Raised("ValidationError")
    ELSE Ok(stats)

\* functools.lru_cache over a call without arguments: <<>> or <<value>>;
\* a call that raises stores nothing
Cached(cache, r) == IF cache # <<>> THEN cache ELSE IF r.raised = "" THEN <<r.value>> ELSE cache

Lookup(cache, r) == IF cache # <<>> THEN Ok(cache[1]) ELSE r

\* ------------------------------------------------------------------ inputs
\* Raw CSV contents.  Ids are the row positions, as in the sample data.
Str_ab == <<97, 98>>
Str_Ba == <<66, 97>>
Str_c == <<99>>
Str_p == <<112>>
Str_q == <<113>>

ExpPool ==
    << [id |-> 1, name |-> Str_ab, project_id |-> Str_p, created_at |-> 20],
       [id |-> 2, name |-> Str_Ba, project_id |-> Str_q, created_at |-> BadCell],
       [id |-> 3, name |-> Str_c, project_id |-> Str_p, created_at |-> 10],
       [id |-> 4, name |-> Str_ab, project_id |-> Str_q, created_at |-> 20],
       [id |-> 5, name |-> Str_c, project_id |-> Str_p, created_at |-> 30] >>

NameHeaders == {"name", "experiment name", "Experiment Name"}

TrialKinds ==
    { [experiment_id |-> 1, status |-> "finished", accuracy |-> 80, created_at |-> 7],
      [experiment_id |-> 1, status |-> "FINISHED", accuracy |-> 90, created_at |-> 3],
      [experiment_id |-> 1, status |-> "failed", accuracy |-> NaN, created_at |-> 5],
      [experiment_id |-> 2, status |-> "finished", accuracy |-> 50, created_at |-> BadCell],
      [experiment_id |-> 2, status |-> "running", accuracy |-> 30, created_at |-> 7] }

RunKinds ==
    { [trial_id |-> 1, tokens |-> 100, costs |-> 5, latency_ms |-> 10, created_at |-> 4],
      [trial_id |-> 2, tokens |-> 0, costs |-> 5, latency_ms |-> 31, created_at |-> 6],
      [trial_id |-> 9, tokens |-> 10, costs |-> 7, latency_ms |-> 20, created_at |-> 6] }

SeqsUpTo(S, n) == UNION {[1..k -> S] : k \in 0..n}

WithIds(rows) == [i \in 1..Len(rows) |-> rows[i] @@ [id |-> i]]

ExpCols(h) == {"id", h, "project_id", "created_at"}
TrialCols == {"id", "experiment_id", "status", "created_at", "accuracy"}
RunCols == {"id", "trial_id", "tokens", "costs", "latency_ms", "created_at"}

ExpCsv(n, h) ==
    [cols |-> ExpCols(h),
     rows |-> [i \in 1..n |->
                 RenameRow(ExpPool[i], ExpCols("name"),
                           [c \in ExpCols("name") |-> IF c = "name" THEN h ELSE c])]]

TrialCsv(rows) == [cols |-> TrialCols, rows |-> WithIds(rows)]
RunCsv(rows) == [cols |-> RunCols, rows |-> WithIds(rows)]

Csv(e, t, r) == [exp |-> e, tri |-> t, run |-> r]

\* the scenario of spec section 8: experiment A with trials 0.8, 0.9 finished
\* and one failed, experiment B with one trial 0.5 finished
ExampleCsv ==
    Csv(ExpCsv(2, "name"),
        TrialCsv(<< [experiment_id |-> 1, status |-> "finished", accuracy |-> 80, created_at |-> 7],
                    [experiment_id |-> 1, status |-> "finished", accuracy |-> 90, created_at |-> 3],
                    [experiment_id |-> 1, status |-> "failed", accuracy |-> NaN, created_at |-> 5],
                    [experiment_id |-> 2, status |-> "finished", accuracy |-> 50, created_at |-> 7] >>),
        RunCsv(<< [trial_id |-> 1, tokens |-> 100, costs |-> 5, latency_ms |-> 10, created_at |-> 4] >>))

CsvInputs ==
    { Csv(ExpCsv(n, h), TrialCsv(t), RunCsv(r)) :
        n \in 0..MaxExps, h \in NameHeaders,
        t \in SeqsUpTo(TrialKinds, MaxTrials), r \in SeqsUpTo(RunKinds, MaxRuns) }
    \cup {ExampleCsv}

\* inputs of the reload scenarios: three loadable datasets, a runs.csv
\* without its tokens column, and a missing runs.csv
Trial(e, st, a, c) == [experiment_id |-> e, status |-> st, accuracy |-> a, created_at |-> c]
Run(t, k, c, l, d) == [trial_id |-> t, tokens |-> k, costs |-> c, latency_ms |-> l, created_at |-> d]

CsvA == Csv(ExpCsv(1, "name"), TrialCsv(<<Trial(1, "finished", 80, 7)>>),
            RunCsv(<<Run(1, 100, 5, 10, 4)>>))

CsvC == Csv(ExpCsv(1, "experiment name"), TrialCsv(<<Trial(1, "failed", NaN, 5)>>),
            RunCsv(<<Run(1, 0, 5, 31, 6)>>))

DropCol(df, c) ==
    [cols |-> df.cols \ {c},
     rows |-> [i \in 1..Len(df.rows) |-> [k \in df.cols \ {c} |-> df.rows[i][k]]]]

CsvNoTokens ==
    Csv(ExpCsv(2, "name"), TrialCsv(<<Trial(2, "finished", 50, 7)>>),
        DropCol(RunCsv(<<Run(1, 10, 7, 20, 6), Run(1, 10, 7, 20, 6)>>), "tokens"))

CsvNoFile == Csv(ExpCsv(1, "name"), TrialCsv(<<>>), None_df)

ReloadInputs == {CsvA, ExampleCsv, CsvC, CsvNoTokens, CsvNoFile}

\* -------------------------------------------------------------------- state
VARIABLES
    experiments_df,     \* DataManager.experiments_df
    trials_df,          \* DataManager.trials_df
    runs_df,            \* DataManager.runs_df
    initialized,        \* DataManager._initialized
    dm_stats_cache,     \* lru_cache of DataManager.get_dashboard_stats
    svc_stats_cache,    \* lru_cache of MetricsService.get_dashboard_stats
    svc_cost_cache,     \* lru_cache of MetricsService.get_cost_breakdown
    pc,                 \* the line initialize() is at, "idle" outside of it
    ld,                 \* the locals exp, tri, run of a running initialize()
    last,               \* the last call: [op, args, result, after_reload, after_clear]
    pending,            \* which memoized calls have not been made since a reload / a clear
    paging              \* the pages a client has fetched of one listing: [args, pages, done]

tables == <<experiments_df, trials_df, runs_df, initialized>>
caches == <<dm_stats_cache, svc_stats_cache, svc_cost_cache>>
vars == <<experiments_df, trials_df, runs_df, initialized, dm_stats_cache,
          svc_stats_cache, svc_cost_cache, pc, ld, last, pending, paging>>

DMnow == DM(experiments_df, trials_df, runs_df, initialized)

SetDM(dm) ==
    /\ experiments_df' = dm.experiments_df
    /\ trials_df' = dm.trials_df
    /\ runs_df' = dm.runs_df
    /\ initialized' = dm.initialized

NoLocals == [exp |-> None_df, tri |-> None_df, run |-> None_df]

Call(op, args, result) ==
    [op |-> op, args |-> args, result |-> result, after_reload |-> FALSE, after_clear |-> FALSE]

NoPaging == [args |-> <<>>, pages |-> <<>>, done |-> FALSE]

NothingPending ==
    [reload_stats |-> FALSE, reload_cost |-> FALSE, clear_stats |-> FALSE, clear_cost |-> FALSE]

\* data_loader.py 67-71 and the empty caches of a fresh process
Init ==
    /\ experiments_df = None_df
    /\ trials_df = None_df
    /\ runs_df = None_df
    /\ initialized = FALSE
    /\ dm_stats_cache = <<>>
    /\ svc_stats_cache = <<>>
    /\ svc_cost_cache = <<>>
    /\ pc = "idle"
    /\ ld = NoLocals
    /\ last = Call("DataManager.__init__", <<>>, Ok(None))
    /\ pending = NothingPending
    /\ paging = NoPaging

\* ---------------------------------------------------------------- operations
\* DataManager.initialize(), lines 73-140, as one uninterrupted call
initialize(csv) ==
    /\ pc = "idle"
    /\ LET r == initialize_run(DMnow, csv)
       IN /\ SetDM(r.dm)
          /\ dm_stats_cache' = IF r.cleared THEN <<>> ELSE dm_stats_cache
          /\ last' = Call("DataManager.initialize", <<>>,
                          IF r.raised = "" THEN Ok(None) ELSE Raised(r.raised))
          /\ pending' = [pending EXCEPT !.reload_stats = (r.raised = ""),
                                        !.reload_cost = (r.raised = "")]
    /\ UNCHANGED <<svc_stats_cache, svc_cost_cache, pc, ld, paging>>

\* DataManager.get_dashboard_stats behind its lru_cache (line 248)
dm_get_dashboard_stats(dm, cache) ==
    LET r == Lookup(cache, compute_dashboard_stats(dm))
    IN [result |-> r, cache |-> Cached(cache, r)]

\* services.py 156-161
svc_get_dashboard_stats(dm, dmcache, svccache) ==
    IF svccache # <<>> THEN [result |-> Ok(svccache[1]), dmcache |-> dmcache, svccache |-> svccache]
    ELSE LET inner == dm_get_dashboard_stats(dm, dmcache)
             r == IF inner.result.raised # "" THEN inner.result
                  ELSE DashboardStats(inner.result.value)
         IN [result |-> r, dmcache |-> inner.cache, svccache |-> Cached(<<>>, r)]

MetricsService_get_dashboard_stats ==
    /\ LET c == svc_get_dashboard_stats(DMnow, dm_stats_cache, svc_stats_cache)
       IN /\ dm_stats_cache' = c.dmcache
          /\ svc_stats_cache' = c.svccache
          /\ last' = [Call("MetricsService.get_dashboard_stats", <<>>, c.result)
                        EXCEPT !.after_reload = pending.reload_stats,
                               !.after_clear = pending.clear_stats]
    /\ pending' = [pending EXCEPT !.reload_stats = FALSE, !.clear_stats = FALSE]
    /\ UNCHANGED <<tables, svc_cost_cache, pc, ld, paging>>

\* services.py 163-168; CostByExperiment(**item) accepts every item
svc_get_cost_breakdown(dm, svccache) ==
    LET r == Lookup(svccache, get_cost_by_experiment(dm))
    IN [result |-> r, svccache |-> Cached(svccache, r)]

MetricsService_get_cost_breakdown ==
    /\ LET c == svc_get_cost_breakdown(DMnow, svc_cost_cache)
       IN /\ svc_cost_cache' = c.svccache
          /\ last' = [Call("MetricsService.get_cost_breakdown", <<>>, c.result)
                        EXCEPT !.after_reload = pending.reload_cost,
                               !.after_clear = pending.clear_cost]
    /\ pending' = [pending EXCEPT !.reload_cost = FALSE, !.clear_cost = FALSE]
    /\ UNCHANGED <<tables, dm_stats_cache, svc_stats_cache, pc, ld, paging>>

\* services.py 190-195 (POST /cache/clear, routes.py 182-186): the two
\* MetricsService caches are cleared
MetricsService_clear_cache ==
    /\ svc_stats_cache' = <<>>
    /\ svc_cost_cache' = <<>>
    /\ last' = Call("MetricsService.clear_cache", <<>>, Ok(None))
    /\ pending' = [pending EXCEPT !.clear_stats = TRUE, !.clear_cost = TRUE]
    /\ UNCHANGED <<tables, dm_stats_cache, pc, ld, paging>>

\* ------------------------------------------------------------ specification
\* loads, memoized reads and cache clears, one call at a time
Next ==
    \/ \E csv \in ReloadInputs : initialize(csv)
    \/ MetricsService_get_dashboard_stats
    \/ MetricsService_get_cost_breakdown
    \/ MetricsService_clear_cache

Spec == Init /\ [][Next]_vars

\* what the memoized calls return when nothing is memoized
FreshStats == svc_get_dashboard_stats(DMnow, <<>>, <<>>).result
FreshCost == svc_get_cost_breakdown(DMnow, <<>>).result

\* C1: after a completed reload, the next MetricsService.get_dashboard_stats
\* and the next MetricsService.get_cost_breakdown return what the reloaded
\* tables give, not the value memoized before the reload.
C1_ReloadInvalidates ==
    /\ (last.op = "MetricsService.get_dashboard_stats" /\ last.after_reload)
          => last.result = FreshStats
    /\ (last.op = "MetricsService.get_cost_breakdown" /\ last.after_reload)
          => last.result = FreshCost

\* C3: after MetricsService.clear_cache, the next dashboard stats and the next
\* cost breakdown are what the tables of that moment give: no memoization
\* layer returns an older value.
C3_ClearInvalidates ==
    /\ (last.op = "MetricsService.get_dashboard_stats" /\ last.after_clear)
          => last.result = FreshStats
    /\ (last.op = "MetricsService.get_cost_breakdown" /\ last.after_clear)
          => last.result = FreshCost

\* ------------------------------------------- initialize(), statement by statement
\* The same call as initialize(csv), one store per step, so that other calls
\* can run between two of its statements.
ConcInputs == {CsvA, ExampleCsv}

Abort(e) ==
    /\ pc' = "idle"
    /\ ld' = NoLocals
    /\ last' = Call("DataManager.initialize", <<>>, Raised(e))

Goto(l) == pc' = l /\ UNCHANGED <<ld, last>>

\* lines 79-114: the three files are read and normalized into exp, tri, run
load_begin(csv) ==
    /\ pc = "idle"
    /\ LET e == load_experiments(csv)
           t == load_trials(csv)
           r == load_runs(csv)
       IN IF e.raised # "" THEN Abort(e.raised)
          ELSE IF t.raised # "" THEN Abort(t.raised)
          ELSE IF r.raised # "" THEN Abort(r.raised)
          ELSE /\ ld' = [exp |-> e.value, tri |-> t.value, run |-> r.value]
               /\ pc' = "l117"
               /\ UNCHANGED last
    /\ UNCHANGED <<tables, caches, pending, paging>>

\* line 117
store_experiments ==
    /\ pc = "l117"
    /\ experiments_df' = ld.exp
    /\ Goto("l118")
    /\ UNCHANGED <<trials_df, runs_df, initialized, caches, pending, paging>>

\* line 118
store_trials ==
    /\ pc = "l118"
    /\ trials_df' = ld.tri
    /\ Goto("l119")
    /\ UNCHANGED <<experiments_df, runs_df, initialized, caches, pending, paging>>

\* line 119
store_runs ==
    /\ pc = "l119"
    /\ runs_df' = ld.run
    /\ Goto("l158")
    /\ UNCHANGED <<experiments_df, trials_df, initialized, caches, pending, paging>>

\* lines 146-160: the merged trials table is stored
store_merged_trials ==
    /\ pc = "l158"
    /\ IF runs_df = None_df \/ trials_df = None_df
       THEN Goto("l180") /\ UNCHANGED trials_df
       ELSE IF ~(RunAggNeeds \subseteq runs_df.cols) \/ "id" \notin trials_df.cols
       THEN Abort("KeyError") /\ UNCHANGED trials_df
       ELSE trials_df' = merge_trials(trials_df, runs_df) /\ Goto("l163")
    /\ UNCHANGED <<experiments_df, runs_df, initialized, caches, pending, paging>>

\* lines 163-167
store_filled_trials ==
    /\ pc = "l163"
    /\ IF ~(TrialRollupCols \subseteq trials_df.cols)
       THEN Abort("KeyError") /\ UNCHANGED trials_df
       ELSE trials_df' = fillna_trials(trials_df) /\ Goto("l180")
    /\ UNCHANGED <<experiments_df, runs_df, initialized, caches, pending, paging>>

\* lines 169-182: the merged experiments table is stored
store_merged_experiments ==
    /\ pc = "l180"
    /\ IF trials_df = None_df \/ experiments_df = None_df
       THEN Goto("l124") /\ UNCHANGED experiments_df
       ELSE IF ~(TrialAggNeeds \subseteq trials_df.cols) \/ "id" \notin experiments_df.cols
       THEN Abort("KeyError") /\ UNCHANGED experiments_df
       ELSE experiments_df' = merge_experiments(experiments_df, trials_df) /\ Goto("l184")
    /\ UNCHANGED <<trials_df, runs_df, initialized, caches, pending, paging>>

\* lines 184-188
store_filled_experiments ==
    /\ pc = "l184"
    /\ IF ~(ExpRollupCols \subseteq experiments_df.cols)
       THEN Abort("KeyError") /\ UNCHANGED experiments_df
       ELSE experiments_df' = fillna_experiments(experiments_df) /\ Goto("l124")
    /\ UNCHANGED <<trials_df, runs_df, initialized, caches, pending, paging>>

\* line 124
set_initialized ==
    /\ pc = "l124"
    /\ initialized' = TRUE
    /\ Goto("l128")
    /\ UNCHANGED <<experiments_df, trials_df, runs_df, caches, pending, paging>>

\* lines 126-136: the manager's own cache is cleared and the call returns
clear_and_return ==
    /\ pc = "l128"
    /\ dm_stats_cache' = <<>>
    /\ pc' = "idle"
    /\ ld' = NoLocals
    /\ last' = Call("DataManager.initialize", <<>>, Ok(None))
    /\ pending' = [pending EXCEPT !.reload_stats = TRUE, !.reload_cost = TRUE]
    /\ UNCHANGED <<tables, svc_stats_cache, svc_cost_cache, paging>>

\* main.py 143-155, GET /api/v1/status
status ==
    /\ last' = Call("status", <<>>,
                    Ok([data_loaded |-> initialized,
                        experiments_count |-> IF initialized THEN Len(experiments_df.rows) ELSE 0,
                        trials_count |-> IF initialized THEN Len(trials_df.rows) ELSE 0,
                        runs_count |-> IF initialized THEN Len(runs_df.rows) ELSE 0]))
    /\ UNCHANGED <<tables, caches, pc, ld, pending, paging>>

\* a reload whose statements interleave with the requests
NextConc ==
    \/ \E csv \in ConcInputs : load_begin(csv)
    \/ store_experiments
    \/ store_trials
    \/ store_runs
    \/ store_merged_trials
    \/ store_filled_trials
    \/ store_merged_experiments
    \/ store_filled_experiments
    \/ set_initialized
    \/ clear_and_return
    \/ status
    \/ MetricsService_get_dashboard_stats
    \/ MetricsService_get_cost_breakdown
    \/ MetricsService_clear_cache

SpecConc == Init /\ [][NextConc]_vars

DM0 == DM(None_df, None_df, None_df, FALSE)

Snapshot(dm) == <<dm.experiments_df, dm.trials_df, dm.runs_df>>

\* C2: at every point of every interleaving the three tables a reader finds
\* are those of one load, rollup columns included (or the three empty slots
\* of a manager that never loaded): never a mix of loads, never base tables
\* without their rollups.
C2_ReadersSeeWholeSnapshot ==
    \/ Snapshot(DMnow) = Snapshot(DM0)
    \/ \E csv \in ConcInputs : Snapshot(DMnow) = Snapshot(initialize_run(DM0, csv).dm)

\* ------------------------------------------------- queries over one loaded dataset
\* DataManager.get_dashboard_stats called on the manager (through its cache)
DataManager_get_dashboard_stats ==
    /\ LET c == dm_get_dashboard_stats(DMnow, dm_stats_cache)
       IN /\ dm_stats_cache' = c.cache
          /\ last' = Call("DataManager.get_dashboard_stats", <<>>, c.result)
    /\ UNCHANGED <<tables, svc_stats_cache, svc_cost_cache, pc, ld, pending, paging>>

\* DataManager.get_cost_by_experiment called on the manager
DataManager_get_cost_by_experiment ==
    /\ last' = Call("DataManager.get_cost_by_experiment", <<>>, get_cost_by_experiment(DMnow))
    /\ UNCHANGED <<tables, caches, pc, ld, pending, paging>>

\* the process after its startup load (main.py 26-45) of one of the inputs
InitQuery ==
    \E csv \in CsvInputs :
        LET r == initialize_run(DM0, csv)
        IN /\ experiments_df = r.dm.experiments_df
           /\ trials_df = r.dm.trials_df
           /\ runs_df = r.dm.runs_df
           /\ initialized = r.dm.initialized
           /\ dm_stats_cache = <<>>
           /\ svc_stats_cache = <<>>
           /\ svc_cost_cache = <<>>
           /\ pc = "idle"
           /\ ld = NoLocals
           /\ last = Call("DataManager.initialize", <<>>, Ok(None))
           /\ pending = NothingPending
           /\ paging = NoPaging

NextQuery ==
    \/ MetricsService_get_dashboard_stats
    \/ MetricsService_get_cost_breakdown
    \/ DataManager_get_dashboard_stats
    \/ DataManager_get_cost_by_experiment

SpecQuery == InitQuery /\ [][NextQuery]_vars

\* ------------------------------------------------ what the tables say, row by row
TrialIdx == 1..Len(trials_df.rows)
RunIdx == 1..Len(runs_df.rows)
ExpIdx == 1..Len(experiments_df.rows)

RECURSIVE SumOver(_, _)
SumOver(f, S) ==
    IF S = {} THEN 0 ELSE LET x == CHOOSE y \in S : TRUE IN f[x] + SumOver(f, S \ {x})

FinishedTrials == {i \in TrialIdx : trials_df.rows[i]["status"] = "finished"}
FailedTrials == {i \in TrialIdx : trials_df.rows[i]["status"] = "failed"}
ScoredTrials == {i \in FinishedTrials : trials_df.rows[i]["accuracy"] # NaN}
TimedRuns == {i \in RunIdx : runs_df.rows[i]["latency_ms"] # NaN}

AccuracyOf == [i \in TrialIdx |-> trials_df.rows[i]["accuracy"]]

\* the fraction q is the quotient n / d
IsQuotient(q, n, d) == Len(q) = 2 /\ q[2] > 0 /\ q[1] * d = n * q[2]

\* C6: for every dataset MetricsService.get_dashboard_stats reports the table
\* sizes, the number of failed trials, the mean accuracy of the finished
\* trials and finished / total * 100 as success rate.
C6_DashboardStatsValues ==
    last.op = "MetricsService.get_dashboard_stats" =>
        /\ last.result.raised = ""
        /\ last.result.value.total_experiments = Cardinality(ExpIdx)
        /\ last.result.value.total_trials = Cardinality(TrialIdx)
        /\ last.result.value.total_runs = Cardinality(RunIdx)
        /\ last.result.value.failed_trials = Cardinality(FailedTrials)
        /\ ScoredTrials # {} =>
              IsQuotient(last.result.value.avg_accuracy,
                         SumOver(AccuracyOf, ScoredTrials), Cardinality(ScoredTrials))
        /\ TrialIdx # {} =>
              IsQuotient(last.result.value.success_rate,
                         Cardinality(FinishedTrials) * 100, Cardinality(TrialIdx))

\* C7: when the finished trials carry no accuracy, or there is no run, the
\* dashboard stats served by MetricsService.get_dashboard_stats come back
\* without an exception, with that mean null.
C7_UndefinedMeansAreNull ==
    last.op = "MetricsService.get_dashboard_stats" =>
        /\ ScoredTrials = {} =>
              last.result.raised = "" /\ last.result.value.avg_accuracy = None
        /\ TimedRuns = {} =>
              /\ last.result.raised = ""
              /\ last.result.value.avg_latency_ms = None
              /\ last.result.value.total_runs = 0
              /\ last.result.value.total_cost = 0

\* C8: the success_rate of DataManager.get_dashboard_stats lies in [0, 100]
\* and is exactly 0, not an error, when there is no trial.
C8_SuccessRateRange ==
    last.op = "DataManager.get_dashboard_stats" =>
        /\ last.result.raised = ""
        /\ Len(last.result.value.success_rate) = 2
        /\ last.result.value.success_rate[2] > 0
        /\ last.result.value.success_rate[1] >= 0
        /\ last.result.value.success_rate[1] <= 100 * last.result.value.success_rate[2]
        /\ TrialIdx = {} => last.result.value.success_rate[1] = 0

\* a dataset with finished and unfinished trials has been served
C8_Witness ==
    /\ last.op = "DataManager.get_dashboard_stats"
    /\ last.result.raised = ""
    /\ FinishedTrials # {}
    /\ FinishedTrials # TrialIdx

\* a dataset without any trial has been served
C8_WitnessNoTrials ==
    /\ last.op = "DataManager.get_dashboard_stats"
    /\ last.result.raised = ""
    /\ TrialIdx = {}

\* ---------------------------------------------------------- cost by experiment
TrialsOf(e) == {i \in TrialIdx : trials_df.rows[i]["experiment_id"] = e}
ExpIds == {experiments_df.rows[i]["id"] : i \in ExpIdx}
ExpsWithTrials == {e \in ExpIds : TrialsOf(e) # {}}

TrialCostOf == [i \in TrialIdx |-> trials_df.rows[i]["total_cost"]]
TrialRunsOf == [i \in TrialIdx |-> trials_df.rows[i]["run_count"]]

EntriesOf(entries, e) == {k \in 1..Len(entries) : entries[k].experiment_id = e}

\* C9: get_cost_by_experiment has exactly one entry for each experiment with
\* at least one trial and none for any other id, each entry carries the sums
\* of total_cost and run_count over the trials of its experiment, and the
\* entries are in non-increasing order of total_cost.
C9_CostByExperiment ==
    last.op = "DataManager.get_cost_by_experiment" =>
        /\ last.result.raised = ""
        /\ LET entries == last.result.value
           IN /\ \A e \in ExpsWithTrials : Cardinality(EntriesOf(entries, e)) = 1
              /\ \A k \in 1..Len(entries) :
                    /\ entries[k].experiment_id \in ExpsWithTrials
                    /\ entries[k].total_cost =
                          SumOver(TrialCostOf, TrialsOf(entries[k].experiment_id))
                    /\ entries[k].run_count =
                          SumOver(TrialRunsOf, TrialsOf(entries[k].experiment_id))
              /\ \A k \in 1..(Len(entries) - 1) :
                    entries[k].total_cost >= entries[k + 1].total_cost

\* two experiments with trials were listed, the cheaper one has the lower id
\* and comes second, and the trials of an unknown experiment were left out
C9_Witness ==
    /\ last.op = "DataManager.get_cost_by_experiment"
    /\ last.result.raised = ""
    /\ Len(last.result.value) = 2
    /\ last.result.value[1].total_cost > last.result.value[2].total_cost
    /\ last.result.value[1].experiment_id > last.result.value[2].experiment_id

RECURSIVE FracSum(_)
FracSum(s) ==
    IF s = <<>> THEN <<0, 1>>
    ELSE LET r == FracSum(Tail(s))
         IN <<Head(s)[1] * r[2] + r[1] * Head(s)[2], Head(s)[2] * r[2]>>

Percentages(entries) == [k \in 1..Len(entries) |-> entries[k].percentage]
GrandTotal(entries) == SumSeq([k \in 1..Len(entries) |-> entries[k].total_cost])

\* C10: the percentages of get_cost_by_experiment add up to 100 when the
\* grand total of the listed costs is not zero, every percentage is 0 when it
\* is zero, and no percentage comes from a division by zero.
C10_PercentagesSumTo100 ==
    last.op = "DataManager.get_cost_by_experiment" =>
        /\ last.result.raised = ""
        /\ LET entries == last.result.value
           IN /\ \A k \in 1..Len(entries) : entries[k].percentage[2] # 0
              /\ GrandTotal(entries) # 0 =>
                    FracSum(Percentages(entries))[1] = 100 * FracSum(Percentages(entries))[2]
              /\ GrandTotal(entries) = 0 =>
                    \A k \in 1..Len(entries) : entries[k].percentage[1] = 0

\* a breakdown over two experiments that both spent something
C10_Witness ==
    /\ last.op = "DataManager.get_cost_by_experiment"
    /\ last.result.raised = ""
    /\ Len(last.result.value) = 2
    /\ last.result.value[2].total_cost > 0

\* a breakdown whose experiments spent nothing
C10_WitnessZero ==
    /\ last.op = "DataManager.get_cost_by_experiment"
    /\ last.result.raised = ""
    /\ Len(last.result.value) > 0
    /\ GrandTotal(last.result.value) = 0

\* ------------------------------------------------- paging through the experiment list
Str_a == <<97>>
Str_dot == <<46>>

Filter(n, p, a, b) == [name |-> n, project_id |-> p, created_after |-> a, created_before |-> b]

\* the filters a client sends: none, a name fragment in either case, a name
\* pattern with a wildcard, a project, a date range, a fragment nothing has
FilterPool ==
    { Filter(NoFilter, NoFilter, NaN, NaN),
      Filter(Str_a, NoFilter, NaN, NaN),
      Filter(Str_dot, NoFilter, NaN, NaN),
      Filter(NoFilter, Str_p, NaN, NaN),
      Filter(NoFilter, NoFilter, 20, NaN),
      Filter(Str_c, NoFilter, NaN, 10),
      Filter(Str_q, NoFilter, NaN, NaN) }

\* routes.py 42-68 admits created_at, name and total_cost; the manager itself
\* takes any string and leaves the table order for a column it does not have
SortKeys == {"created_at", "name", "total_cost", "rank"}
SortOrders == {"asc", "desc"}

PagingInputs ==
    { Csv(ExpCsv(n, h), TrialCsv(t), RunCsv(r)) :
        n \in 0..(MaxExps + 2), h \in NameHeaders,
        t \in SeqsUpTo(TrialKinds, 1), r \in SeqsUpTo(RunKinds, 1) }

\* one call of DataManager.get_experiments, added to the pages fetched so far
FetchPage(args, offset, sofar) ==
    LET r == get_experiments(DMnow, offset, args.limit, args.filters,
                             args.sort_by, args.sort_order)
    IN /\ last' = Call("DataManager.get_experiments", args @@ [offset |-> offset], r)
       /\ paging' = [args |-> args, pages |-> Append(sofar, r),
                     done |-> (r.raised # "" \/ r.value.records = <<>>)]

\* the client asks for the first page of a listing (one listing is followed
\* to its end in a behaviour: the call reads the tables and nothing else)
get_experiments_first_page(filters, sort_by, sort_order, limit) ==
    /\ paging = NoPaging
    /\ FetchPage([filters |-> filters, sort_by |-> sort_by,
                  sort_order |-> sort_order, limit |-> limit], 0, <<>>)
    /\ UNCHANGED <<tables, caches, pc, ld, pending>>

\* the client asks for the page after the ones it has, at the next multiple of limit
get_experiments_next_page ==
    /\ paging # NoPaging
    /\ ~paging.done
    /\ FetchPage(paging.args, Len(paging.pages) * paging.args.limit, paging.pages)
    /\ UNCHANGED <<tables, caches, pc, ld, pending>>

InitPaging ==
    \E csv \in PagingInputs :
        LET r == initialize_run(DM0, csv)
        IN /\ experiments_df = r.dm.experiments_df
           /\ trials_df = r.dm.trials_df
           /\ runs_df = r.dm.runs_df
           /\ initialized = r.dm.initialized
           /\ dm_stats_cache = <<>>
           /\ svc_stats_cache = <<>>
           /\ svc_cost_cache = <<>>
           /\ pc = "idle"
           /\ ld = NoLocals
           /\ last = Call("DataManager.initialize", <<>>, Ok(None))
           /\ pending = NothingPending
           /\ paging = NoPaging

NextPaging ==
    \/ \E f \in FilterPool, by \in SortKeys, ord \in SortOrders, limit \in 1..MaxLimit :
           get_experiments_first_page(f, by, ord, limit)
    \/ get_experiments_next_page

SpecPaging == InitPaging /\ [][NextPaging]_vars

RECURSIVE Concat(_)
Concat(ss) == IF ss = <<>> THEN <<>> ELSE Head(ss) \o Concat(Tail(ss))

\* the experiments a filter lets through, each taken on its own
Matching(filters) ==
    {i \in ExpIdx : apply_filters(<<experiments_df.rows[i]>>, filters) # <<>>}

\* keys in the asked order, rows without a key at the end
InOrder(rows, by, ascending, textual) ==
    \A i \in 1..Len(rows) : \A j \in (i + 1)..Len(rows) :
        \/ IsNull(rows[j][by], textual)
        \/ /\ ~IsNull(rows[i][by], textual)
           /\ IF ascending THEN ~KeyLess(rows[j][by], rows[i][by], textual)
                           ELSE ~KeyLess(rows[i][by], rows[j][by], textual)

PagedRecords == Concat([k \in 1..Len(paging.pages) |-> paging.pages[k].value.records])

dt_date(ts) == IF ts = NaN THEN NaN ELSE ts \div 5

\* Timestamp.isoformat(): day and time of day, "NaT" for a missing timestamp
isoformat(ts) == IF ts = NaN THEN [iso |-> "NaT"] ELSE [iso |-> <<ts \div 5, ts % 5>>]

\* Timestamp(d).strftime("%Y-%m-%d")
strftime(d) == [ymd |-> d]

\* str.lower()
lower_str(w) == [i \in 1..Len(w) |-> lower(w[i])]

\* str.startswith
startswith(w, prefix) ==
    /\ Len(prefix) <= Len(w)
    /\ \A i \in 1..Len(prefix) : w[i] = prefix[i]

\* the characters of a status value
chars(st) ==
    CASE st = "finished" -> <<102, 105, 110, 105, 115, 104, 101, 100>>
      [] st = "failed" -> <<102, 97, 105, 108, 101, 100>>
      [] st = "running" -> <<114, 117, 110, 110, 105, 110, 103>>
      [] st = "pending" -> <<112, 101, 110, 100, 105, 110, 103>>
      [] OTHER -> <<>>

\* the strings of a set from the last to the first
sorted_strs_reversed(S) ==
    [p \in 1..Cardinality(S) |->
        CHOOSE x \in S : Cardinality({y \in S : str_less(x, y)}) = p - 1]

\* sorted(set of str)
sorted_strs(S) ==
    [p \in 1..Cardinality(S) |->
        CHOOSE x \in S : Cardinality({y \in S : str_less(y, x)}) = p - 1]

\* sorted(set of int)
sorted_ints(S) ==
    [p \in 1..Cardinality(S) |->
        CHOOSE x \in S : Cardinality({y \in S : y < x}) = p - 1]

\* seq[:n]
head(rows, n) == [i \in 1..(IF n < Len(rows) THEN n ELSE Len(rows)) |-> rows[i]]

\* seq[:n], the first n
tail_slice_from_front(rows, n) ==
    IF n >= Len(rows) THEN rows ELSE [i \in 1..n |-> rows[i]]

\* seq[-n:]; seq[-0:] is the whole sequence
tail_slice(rows, n) ==
    IF n = 0 \/ n >= Len(rows) THEN rows
    ELSE [i \in 1..n |-> rows[Len(rows) - n + i]]

\* the builtin sum over numbers: a NaN makes the sum NaN
py_sum(vals) == IF \E i \in 1..Len(vals) : vals[i] = NaN THEN NaN ELSE SumSeq(vals)

\* lines 224-230
get_experiment_by_id(dm, experiment_id) ==
    IF dm.experiments_df = None_df THEN Raised("AttributeError")
    ELSE LET row == RowsWhere(dm.experiments_df, "id", experiment_id)
         IN IF row # <<>> THEN Ok(row[1]) ELSE Ok(None)

\* lines 232-240
get_trials_by_experiment(dm, experiment_id, status_filter) ==
    IF dm.trials_df = None_df THEN Raised("TypeError")
    ELSE LET df == RowsWhere(dm.trials_df, "experiment_id", experiment_id)
             f == IF status_filter # ""
                  THEN SelectSeq(df, LAMBDA r : r["status"] = safe_lower(status_filter))
                  ELSE df
         IN Ok(sort_values(f, "created_at", TRUE, FALSE))

\* lines 242-246
get_runs_by_trial(dm, trial_id) ==
    IF dm.runs_df = None_df THEN Raised("TypeError")
    ELSE Ok(sort_values(RowsWhere(dm.runs_df, "trial_id", trial_id), "created_at", TRUE, FALSE))

\* lines 374-391
get_accuracy_curve(dm, experiment_id) ==
    IF dm.trials_df = None_df THEN Raised("TypeError")
    ELSE LET tri == SelectSeq(dm.trials_df.rows,
                              LAMBDA r : /\ r["experiment_id"] = experiment_id
                                         /\ r["status"] = "finished"
                                         /\ r["accuracy"] # NaN)
             sorted == sort_values(tri, "created_at", TRUE, FALSE)
         IN Ok([i \in 1..Len(sorted) |->
                   [trial_id |-> sorted[i]["id"],
                    timestamp |-> isoformat(sorted[i]["created_at"]),
                    accuracy |-> sorted[i]["accuracy"],
                    status |-> sorted[i]["status"]]])

\* a frame variable in a handler: the frame it holds, and whether it is the
\* very object the manager holds (so that writing into it writes the table)
\* df_runs = self.runs_df, the table itself
DataFrame_alias(df) == [shared |-> TRUE, frame |-> df]

\* df_runs = self.runs_df.copy(), a frame of its own
DataFrame_copy(df) == [shared |-> FALSE, frame |-> df]

\* ref[c] = series, written into the frame ref holds
setitem(ref, c, series) ==
    [shared |-> ref.shared,
     frame |-> [cols |-> ref.frame.cols \cup {c},
                rows |-> [i \in 1..Len(ref.frame.rows) |->
                            [k \in ref.frame.cols \cup {c} |->
                                IF k = c THEN series[i] ELSE ref.frame.rows[i][k]]]]]

\* lines 325-327: every run with the experiment of its trial (left merge on
\* trial_id = trials.id; a run of an unknown trial keeps a null experiment)
runs_with_experiment(df_runs, trials) ==
    Concat([i \in 1..Len(df_runs.rows) |->
        LET m == RowsWhere(trials, "id", df_runs.rows[i]["trial_id"])
            row(e) == [date |-> df_runs.rows[i]["date"], costs |-> df_runs.rows[i]["costs"],
                       id_x |-> df_runs.rows[i]["id"], experiment_id |-> e]
        IN IF m = <<>> THEN <<row(NaN)>>
           ELSE [j \in 1..Len(m) |-> row(m[j]["experiment_id"])]])

\* lines 329-337: one row per date, dates ascending; a run without a date is
\* in no group
daily_agg(df) ==
    LET dates == sorted_ints({df[i]["date"] : i \in 1..Len(df)} \ {NaN})
    IN [k \in 1..Len(dates) |->
          LET g == SelectSeq(df, LAMBDA r : r["date"] = dates[k])
          IN [date |-> dates[k],
              total_cost |-> series_sum([i \in 1..Len(g) |-> g[i]["costs"]]),
              run_count |-> series_count([i \in 1..Len(g) |-> g[i]["id_x"]]),
              experiment_count |->
                  Cardinality({g[i]["experiment_id"] : i \in 1..Len(g)} \ {NaN})]]

\* lines 318-352, DataManager.get_daily_costs; the manager after the call is
\* part of the outcome, as the handler writes a date column into a frame
get_daily_costs(dm, days) ==
    IF dm.runs_df = None_df THEN [result |-> Raised("AttributeError"), dm |-> dm]
    ELSE LET ref == DataFrame_copy(dm.runs_df)
             df_runs == setitem(ref, "date",
                                [i \in 1..Len(ref.frame.rows) |->
                                    dt_date(ref.frame.rows[i]["created_at"])])
             after == IF df_runs.shared THEN [dm EXCEPT !.runs_df = df_runs.frame] ELSE dm
         IN IF after.trials_df = None_df
            THEN [result |-> Raised("TypeError"), dm |-> after]
            ELSE LET daily == daily_agg(runs_with_experiment(df_runs.frame, after.trials_df))
                     out == [i \in 1..Len(daily) |->
                               [date |-> strftime(daily[i].date),
                                total_cost |-> daily[i].total_cost,
                                run_count |-> daily[i].run_count,
                                experiment_count |-> daily[i].experiment_count]]
                 IN [result |-> Ok(tail_slice(out, days)), dm |-> after]

\* re.compile(pat), which str.contains calls first: a group that is opened and
\* never closed is no pattern
re_compiles(pat) ==
    \A i \in 1..Len(pat) : pat[i] = 40 => \E j \in (i + 1)..Len(pat) : pat[j] = 41

\* lines 354-372, DataManager.search: the query is lower-cased and looked for,
\* as a pattern, in the lower-cased names, project ids and statuses
search(dm, query) ==
    IF dm.experiments_df = None_df THEN Raised("TypeError")
    ELSE IF ~re_compiles(lower_str(query)) THEN Raised("re.error")
    ELSE LET q == lower_str(query)
             experiments ==
                 SelectSeq(dm.experiments_df.rows,
                           LAMBDA r : \/ str_contains(q, lower_str(r["name"]))
                                      \/ str_contains(q, lower_str(r["project_id"])))
             trials ==
                 SelectSeq(dm.trials_df.rows,
                           LAMBDA r : str_contains(q, lower_str(chars(r["status"]))))
         IN Ok([experiments |-> head(experiments, 10), trials |-> head(trials, 10)])

\* ------------------------------------------------------------------ services
\* services.py 23-54: the page of the manager, then the "enrichment", which
\* reads trial_count, costs and accuracy, keys no experiment record has
ExperimentService_get_experiments(dm, page, page_size, filters, sort_by, sort_order) ==
    LET r == get_experiments(dm, (page - 1) * page_size, page_size, filters, sort_by, sort_order)
    IN IF r.raised # "" THEN r
       ELSE Ok([records |-> [i \in 1..Len(r.value.records) |->
                                [total_trials |-> 0, total_cost |-> 0, avg_accuracy |-> None]
                                    @@ r.value.records[i]],
                total |-> r.value.total])

\* services.py 56-71
get_experiment_details(dm, experiment_id) ==
    LET exp == get_experiment_by_id(dm, experiment_id)
    IN IF exp.raised # "" \/ exp.value = None THEN exp
       ELSE LET trials == get_trials_by_experiment(dm, experiment_id, "")
            IN IF trials.raised # "" THEN trials
               ELSE Ok([total_trials |-> Len(trials.value),
                        finished_trials |->
                            Len(SelectSeq(trials.value, LAMBDA t : t["status"] = "finished")),
                        failed_trials |->
                            Len(SelectSeq(trials.value, LAMBDA t : t["status"] = "failed"))]
                       @@ exp.value)

\* services.py 73-86: the curve as AccuracyCurve items; the model wants a
\* datetime, which "NaT" is not
ExperimentService_get_accuracy_curve(dm, experiment_id) ==
    LET data == get_accuracy_curve(dm, experiment_id)
    IN IF data.raised # "" THEN data
       ELSE IF \E i \in 1..Len(data.value) : data.value[i].timestamp.iso = "NaT"
       THEN Raised("ValidationError")
       ELSE data

\* the division without its guard
cost_per_token_unguarded(run) == Frac(run["costs"], run["tokens"])

\* services.py 97-99: costs / tokens if run.get("tokens", 0) > 0 else 0
cost_per_token(run) ==
    IF run["tokens"] # NaN /\ run["tokens"] > 0
    THEN Frac(run["costs"], run["tokens"])
    ELSE Frac(0, 1)

\* services.py 90-101
get_trial_runs(dm, trial_id) ==
    LET runs == get_runs_by_trial(dm, trial_id)
    IN IF runs.raised # "" THEN runs
       ELSE Ok([i \in 1..Len(runs.value) |->
                  [cost_per_token |-> cost_per_token(runs.value[i])] @@ runs.value[i]])

\* services.py 125-150
get_trial_details(dm, trial_id) ==
    IF dm.trials_df = None_df THEN Raised("TypeError")
    ELSE LET trial_row == RowsWhere(dm.trials_df, "id", trial_id)
         IN IF trial_row = <<>> THEN Ok(None)
            ELSE LET trial == trial_row[1]
                     exp_row == RowsWhere(dm.experiments_df, "id", trial["experiment_id"])
                     runs == get_runs_by_trial(dm, trial_id).value
                     costs == [i \in 1..Len(runs) |-> runs[i]["costs"]]
                     lats == [i \in 1..Len(runs) |-> runs[i]["latency_ms"]]
                     toks == [i \in 1..Len(runs) |-> runs[i]["tokens"]]
                     named == IF exp_row # <<>>
                              THEN [experiment_name |-> exp_row[1]["experiment_name"]] @@ trial
                              ELSE trial
                 IN IF exp_row # <<>> /\ "experiment_name" \notin dm.experiments_df.cols
                    THEN Raised("KeyError")
                    ELSE IF runs = <<>> THEN Ok(named)
                    ELSE Ok([total_runs |-> Len(runs),
                             total_cost |-> py_sum(costs),
                             avg_latency |-> IF py_sum(lats) = NaN THEN NaNQ
                                             ELSE Frac(py_sum(lats), Len(runs)),
                             total_tokens |-> py_sum(toks)] @@ named)

\* services.py 170-174; every item passes DailyCost
MetricsService_daily_costs(dm, days) == get_daily_costs(dm, days)

\* services.py 201-213
SearchService_search(dm, query, limit) ==
    IF Len(query) < 2 THEN Ok([experiments |-> <<>>, trials |-> <<>>, runs |-> <<>>])
    ELSE LET r == search(dm, query)
         IN IF r.raised # "" THEN r
            ELSE Ok([experiments |-> head(r.value.experiments, limit),
                     trials |-> head(r.value.trials, limit)])

\* services.py 215-234
get_suggestions(dm, prefix) ==
    IF Len(prefix) < 2 THEN Ok(<<>>)
    ELSE IF dm.experiments_df = None_df THEN Raised("TypeError")
    ELSE LET names == {dm.experiments_df.rows[i]["name"] : i \in 1..Len(dm.experiments_df.rows)}
             projects == {dm.experiments_df.rows[i]["project_id"] :
                              i \in 1..Len(dm.experiments_df.rows)}
             suggestions == {w \in names \cup projects :
                                startswith(lower_str(w), lower_str(prefix))}
         IN Ok(head(sorted_strs(suggestions), 10))

\* Series.quantile(0.95), linear interpolation between the two neighbours of
\* position 0.95 * (n - 1) in the sorted non-null values; NaN without values
quantile95(vals) ==
    LET rows == SelectSeq([i \in 1..Len(vals) |-> [v |-> vals[i]]], LAMBDA r : r.v # NaN)
        v == sort_values(rows, "v", TRUE, FALSE)
        n == Len(v)
        idx == (19 * (n - 1)) \div 20
        rem == (19 * (n - 1)) % 20
    IN IF n = 0 THEN NaNQ
       ELSE IF rem = 0 THEN Frac(v[idx + 1].v, 1)
       ELSE Frac(20 * v[idx + 1].v + rem * (v[idx + 2].v - v[idx + 1].v), 20)

\* x > q for a number x and a quotient q; nothing is greater than NaN
greater_than(x, q) == x # NaN /\ q # NaNQ /\ x * q[2] > q[1]

\* two failures or more
many_failures_from_two(count) == count >= 2

\* line 270: "if count > 2"
many_failures(count) == count > 2

\* services.py 240-280
detect_anomalies(dm) ==
    IF dm.runs_df = None_df THEN Raised("TypeError")
    ELSE LET cost_threshold == quantile95(Col(dm.runs_df, "costs"))
             high_cost_runs == SelectSeq(dm.runs_df.rows,
                                         LAMBDA r : greater_than(r["costs"], cost_threshold))
             failed == [cols |-> dm.trials_df.cols,
                        rows |-> RowsWhere(dm.trials_df, "status", "failed")]
             exps == sorted_ints(GroupKeys(failed, "experiment_id"))
             many == SelectSeq(exps, LAMBDA e : many_failures(Len(RowsWhere(failed, "experiment_id", e))))
         IN Ok([i \in 1..Len(high_cost_runs) |->
                   [type |-> "high_cost", trial_id |-> high_cost_runs[i]["trial_id"],
                    value |-> high_cost_runs[i]["costs"], threshold |-> cost_threshold,
                    severity |-> "warning"]]
               \o [i \in 1..Len(many) |->
                   [type |-> "high_failure_rate", experiment_id |-> many[i],
                    failed_count |-> Len(RowsWhere(failed, "experiment_id", many[i])),
                    severity |-> "critical"]])

\* Series.rolling(window=5).mean(): the mean of a value and the four before
\* it, NaN where there are not five or one of them is null
rolling_mean5(vals) ==
    [i \in 1..Len(vals) |->
        IF i < 5 \/ \E k \in (i - 4)..i : vals[k] = NaN THEN NaNQ
        ELSE Frac(SumSeq([k \in 1..5 |-> vals[i - 5 + k]]), 5)]

\* a > b on floats; FALSE when either is NaN
float_greater(a, b) == a # NaNQ /\ b # NaNQ /\ a[1] * b[2] > b[1] * a[2]

\* a numpy.bool_, told apart from None
np_bool(b) == IF b THEN <<"True">> ELSE <<"False">>

\* lines 285-295: the finished trials by created_at, and the two values of
\* their rolling mean that are compared, iloc[-1] and iloc[-5]
finished_by_time(dm) ==
    sort_values(RowsWhere(dm.trials_df, "status", "finished"), "created_at", TRUE, FALSE)

compared_means(dm) ==
    LET finished_trials == finished_by_time(dm)
        n == Len(finished_trials)
        accuracy_trend == rolling_mean5([i \in 1..n |-> finished_trials[i]["accuracy"]])
    IN [newest |-> accuracy_trend[n], earlier |-> accuracy_trend[n - 4]]

\* services.py 282-323; the manager after the call comes from get_daily_costs
get_trends(dm) ==
    IF dm.trials_df = None_df THEN [result |-> Raised("TypeError"), dm |-> dm]
    ELSE LET n == Len(finished_by_time(dm))
             improving == IF n > 5
                          THEN np_bool(float_greater(compared_means(dm).newest,
                                                     compared_means(dm).earlier))
                          ELSE None
             d == get_daily_costs(dm, 7)
             daily_costs == d.result.value
             cost_trend ==
                 IF Len(daily_costs) >= 2
                 THEN IF daily_costs[Len(daily_costs)].total_cost > daily_costs[1].total_cost
                      THEN "increasing" ELSE "decreasing"
                 ELSE "stable"
         IN IF d.result.raised # "" THEN d
            ELSE [result |-> Ok([accuracy_improving |-> improving,
                                 cost_trend |-> cost_trend,
                                 avg_trial_duration |->
                                     IF "duration_seconds" \in d.dm.trials_df.cols
                                     THEN series_mean(Col(d.dm.trials_df, "duration_seconds"))
                                     ELSE None,
                                 experiment_velocity |-> Frac(Len(d.dm.experiments_df.rows), 30)]),
                  dm |-> d.dm]

\* services.py 103-123
get_trial_stats(dm, trial_id) ==
    LET r == get_runs_by_trial(dm, trial_id)
        runs == r.value
        lats == [i \in 1..Len(runs) |-> runs[i]["latency_ms"]]
    IN IF r.raised # "" THEN r
       ELSE IF runs = <<>>
       THEN Ok([total_runs |-> 0, total_cost |-> 0, avg_latency |-> Frac(0, 1), total_tokens |-> 0])
       ELSE Ok([total_runs |-> Len(runs),
                total_cost |-> py_sum([i \in 1..Len(runs) |-> runs[i]["costs"]]),
                avg_latency |-> IF py_sum(lats) = NaN THEN NaNQ ELSE Frac(py_sum(lats), Len(runs)),
                total_tokens |-> py_sum([i \in 1..Len(runs) |-> runs[i]["tokens"]]),
                min_latency |-> CHOOSE x \in {lats[i] : i \in 1..Len(lats)} :
                                    \A i \in 1..Len(lats) : x <= lats[i],
                max_latency |-> CHOOSE x \in {lats[i] : i \in 1..Len(lats)} :
                                    \A i \in 1..Len(lats) : x >= lats[i]])

\* routes.py: a lookup that finds nothing is answered with 404
NotFound == Raised("HTTPException 404")

\* a request whose parameters fail the route's validation is answered with 422
Unprocessable == Raised("HTTP 422")

or_404(r) == IF r.raised = "" /\ r.value = None THEN NotFound ELSE r

\* ------------------------------------------------------ the read-only endpoints
\* a dataset with enough history for the analytics: six finished trials of
\* experiment 1, three failed ones of experiment 2, runs on three days
CsvTrend ==
    Csv(ExpCsv(2, "name"),
        TrialCsv(<< Trial(1, "finished", 50, 1), Trial(1, "finished", 60, 2),
                    Trial(1, "finished", 70, 3), Trial(1, "finished", 80, 6),
                    Trial(1, "finished", 90, 7), Trial(1, "finished", 40, 8),
                    Trial(2, "failed", NaN, 4), Trial(2, "failed", NaN, 9),
                    Trial(2, "Failed", NaN, 11) >>),
        RunCsv(<< Run(1, 100, 5, 10, 4), Run(1, 0, 5, 31, 6), Run(7, 10, 9, 20, 12) >>))

FrameInputs == {CsvA, ExampleCsv, CsvC, CsvTrend}

Str_fi == <<102, 105>>
Str_dots == <<46, 46>>

Str_open == <<97, 40>>

Queries == {Str_ab, Str_fi, Str_dots, Str_a, Str_open}
ExpArgs == 1..(MaxExps + 1)
TrialArgs == 1..(MaxTrials + 1)
StatusArgs == {"", "finished", "FAILED"}

\* routes.py 42-68
GET_experiments(page, page_size, name, sort_by, sort_order) ==
    LET r == ExperimentService_get_experiments(DMnow, page, page_size,
                                               Filter(name, NoFilter, NaN, NaN),
                                               sort_by, sort_order)
    IN /\ last' = Call("GET /experiments", <<page, page_size, name, sort_by, sort_order>>,
                  IF r.raised # "" THEN r
                  ELSE Ok([items |-> r.value.records, total |-> r.value.total, page |-> page,
                           page_size |-> page_size,
                           total_pages |-> (r.value.total + page_size - 1) \div page_size]))
       /\ UNCHANGED <<tables, caches, pc, ld, pending, paging>>

\* routes.py 71-77
GET_experiment(experiment_id) ==
    /\ last' = Call("GET /experiments/{id}", <<experiment_id>>,
               or_404(get_experiment_details(DMnow, experiment_id)))
    /\ UNCHANGED <<tables, caches, pc, ld, pending, paging>>

\* routes.py 80-87
GET_experiment_trials(experiment_id, st) ==
    LET r == get_trials_by_experiment(DMnow, experiment_id, st)
    IN /\ last' = Call("GET /experiments/{id}/trials", <<experiment_id, st>>,
                  IF r.raised # "" THEN r
                  ELSE Ok([experiment_id |-> experiment_id, trials |-> r.value,
                           total |-> Len(r.value)]))
       /\ UNCHANGED <<tables, caches, pc, ld, pending, paging>>

\* routes.py 90-97
GET_accuracy_curve(experiment_id) ==
    /\ last' = Call("GET /experiments/{id}/accuracy-curve", <<experiment_id>>,
               ExperimentService_get_accuracy_curve(DMnow, experiment_id))
    /\ UNCHANGED <<tables, caches, pc, ld, pending, paging>>

\* routes.py 101-107
GET_trial_runs(trial_id) ==
    LET runs == get_trial_runs(DMnow, trial_id)
        stats == get_trial_stats(DMnow, trial_id)
    IN /\ last' = Call("GET /trials/{id}/runs", <<trial_id>>,
                  IF runs.raised # "" THEN runs
                  ELSE IF stats.raised # "" THEN stats
                  ELSE Ok([trial_id |-> trial_id, runs |-> runs.value,
                           total |-> Len(runs.value), stats |-> stats.value]))
       /\ UNCHANGED <<tables, caches, pc, ld, pending, paging>>

\* routes.py 110-113
GET_trial_stats(trial_id) ==
    /\ last' = Call("GET /trials/{id}/stats", <<trial_id>>, get_trial_stats(DMnow, trial_id))
    /\ UNCHANGED <<tables, caches, pc, ld, pending, paging>>

\* routes.py 117-123
GET_trial(trial_id) ==
    /\ last' = Call("GET /trials/{id}", <<trial_id>>, or_404(get_trial_details(DMnow, trial_id)))
    /\ UNCHANGED <<tables, caches, pc, ld, pending, paging>>

\* routes.py 139-144: the manager is left as get_daily_costs leaves it
GET_daily_costs(days) ==
    LET r == MetricsService_daily_costs(DMnow, days)
    IN /\ last' = Call("GET /dashboard/daily-costs", <<days>>, r.result)
       /\ SetDM(r.dm)
       /\ UNCHANGED <<caches, pc, ld, pending, paging>>

\* routes.py 153-156
GET_anomalies ==
    /\ last' = Call("GET /metrics/anomalies", <<>>, detect_anomalies(DMnow))
    /\ UNCHANGED <<tables, caches, pc, ld, pending, paging>>

\* routes.py 159-162: the manager is left as get_trends leaves it
GET_trends ==
    LET r == get_trends(DMnow)
    IN /\ last' = Call("GET /metrics/trends", <<>>, r.result)
       /\ SetDM(r.dm)
       /\ UNCHANGED <<caches, pc, ld, pending, paging>>

\* routes.py 166-172; Query(min_length=2) turns a shorter q away
GET_search(q, limit) ==
    /\ last' = Call("GET /search", <<q, limit>>,
                    IF Len(q) < 2 THEN Unprocessable ELSE SearchService_search(DMnow, q, limit))
    /\ UNCHANGED <<tables, caches, pc, ld, pending, paging>>

\* routes.py 175-178; Query(min_length=2) turns a shorter prefix away
GET_suggestions(prefix) ==
    /\ last' = Call("GET /search/suggestions", <<prefix>>,
                    IF Len(prefix) < 2 THEN Unprocessable ELSE get_suggestions(DMnow, prefix))
    /\ UNCHANGED <<tables, caches, pc, ld, pending, paging>>

InitFrame ==
    \E csv \in FrameInputs :
        LET r == initialize_run(DM0, csv)
        IN /\ experiments_df = r.dm.experiments_df
           /\ trials_df = r.dm.trials_df
           /\ runs_df = r.dm.runs_df
           /\ initialized = r.dm.initialized
           /\ dm_stats_cache = <<>>
           /\ svc_stats_cache = <<>>
           /\ svc_cost_cache = <<>>
           /\ pc = "idle"
           /\ ld = NoLocals
           /\ last = Call("DataManager.initialize", <<>>, Ok(None))
           /\ pending = NothingPending
           /\ paging = NoPaging

NextFrame ==
    \/ \E page \in 1..2, page_size \in 1..MaxLimit, name \in {NoFilter, Str_a},
          by \in SortKeys, ord \in SortOrders :
           GET_experiments(page, page_size, name, by, ord)
    \/ \E e \in ExpArgs : GET_experiment(e)
    \/ \E e \in ExpArgs, st \in StatusArgs : GET_experiment_trials(e, st)
    \/ \E e \in ExpArgs : GET_accuracy_curve(e)
    \/ \E t \in TrialArgs : GET_trial_runs(t)
    \/ \E t \in TrialArgs : GET_trial_stats(t)
    \/ \E t \in TrialArgs : GET_trial(t)
    \/ MetricsService_get_dashboard_stats
    \/ MetricsService_get_cost_breakdown
    \/ \E days \in 1..MaxLimit : GET_daily_costs(days)
    \/ GET_anomalies
    \/ GET_trends
    \/ \E q \in Queries, limit \in 1..MaxLimit : GET_search(q, limit)
    \/ \E prefix \in Queries : GET_suggestions(prefix)

SpecFrame == InitFrame /\ [][NextFrame]_vars

\* C4: no query changes the three tables; after any sequence of query calls
\* experiments, trials and runs are what they were after the load.
C4_QueriesLeaveTables == [][UNCHANGED <<experiments_df, trials_df, runs_df>>]_vars

\* the daily cost series has been computed, with its date column, and the
\* runs table has no such column
C4_Witness ==
    /\ last.op = "GET /dashboard/daily-costs"
    /\ last.result.raised = ""
    /\ Len(last.result.value) = 2
    /\ "date" \notin runs_df.cols
    /\ Len(runs_df.rows) = 3

\* ------------------------------------------- single reads over many datasets
MaxFinished == 9
MaxFailed == 3

\* runs on three days, with and without tokens, of known and unknown trials,
\* one without a readable timestamp
DayRunKinds ==
    RunKinds \cup
    { [trial_id |-> 1, tokens |-> 50, costs |-> 9, latency_ms |-> 10, created_at |-> 3],
      [trial_id |-> 2, tokens |-> 20, costs |-> 2, latency_ms |-> 15, created_at |-> 11],
      [trial_id |-> 1, tokens |-> 10, costs |-> 4, latency_ms |-> 12, created_at |-> BadCell] }

TwoTrials == <<Trial(1, "finished", 80, 7), Trial(2, "failed", NaN, 5)>>

\* any trials with a fixed pair of runs, and any runs with a fixed pair of trials
TrialFamily ==
    { Csv(ExpCsv(2, "name"), TrialCsv(t), RunCsv(<<Run(1, 100, 5, 10, 4), Run(1, 0, 5, 31, 6)>>)) :
        t \in SeqsUpTo(TrialKinds, MaxTrials) }

RunFamily ==
    { Csv(ExpCsv(2, "name"), TrialCsv(TwoTrials), RunCsv(r)) :
        r \in SeqsUpTo(DayRunKinds, MaxRuns) }

\* n finished trials of experiment 1, one per time step, with rising, falling
\* or level accuracy, or with the accuracy of the third one missing
AccuracyShapes == {"rising", "falling", "level", "gap"}

ShapedAccuracy(shape, i) ==
    CASE shape = "rising" -> 10 + i
      [] shape = "falling" -> 90 - i
      [] shape = "level" -> 50
      [] OTHER -> IF i = 3 THEN NaN ELSE 10 + i

FinishedFamily ==
    { Csv(ExpCsv(1, "name"),
          TrialCsv([i \in 1..n |-> Trial(1, "finished", ShapedAccuracy(shape, i), i)]),
          RunCsv(<<>>)) :
        n \in 0..MaxFinished, shape \in AccuracyShapes }

\* a failed trials of experiment 1 and b of experiment 2, after a finished one
FailedFamily ==
    { Csv(ExpCsv(2, "name"),
          TrialCsv(<<Trial(1, "finished", 80, 1)>>
                   \o [i \in 1..a |-> Trial(1, "failed", NaN, 1 + i)]
                   \o [i \in 1..b |-> Trial(2, IF i = 1 THEN "Failed" ELSE "failed", NaN, 5 + i)]),
          RunCsv(<<>>)) :
        a \in 0..MaxFailed, b \in 0..MaxFailed }

\* experiments whose names and projects share prefixes, differ in case and
\* repeat: abc, ABd, ab, xab, abc again, then abj, abk, ...
MaxNames == 14

SuggestName(i) ==
    CASE i = 1 -> <<97, 98, 99>>
      [] i = 2 -> <<65, 66, 100>>
      [] i = 3 -> <<97, 98>>
      [] i = 4 -> <<120, 97, 98>>
      [] i = 5 -> <<97, 98, 99>>
      [] OTHER -> <<97, 98, 100 + i>>

SuggestProject(i) ==
    CASE i % 3 = 0 -> <<97, 98, 80>>
      [] i % 3 = 1 -> <<97, 98>>
      [] OTHER -> <<112, 113>>

SuggestFamily ==
    { Csv([cols |-> ExpCols("name"),
           rows |-> [i \in 1..n |-> [id |-> i, name |-> SuggestName(i),
                                     project_id |-> SuggestProject(i), created_at |-> i]]],
          TrialCsv(<<Trial(1, "finished", 80, 7)>>), RunCsv(<<>>)) :
        n \in 0..MaxNames }

ReadInputs ==
    TrialFamily \cup RunFamily \cup FinishedFamily \cup FailedFamily \cup SuggestFamily
    \cup FrameInputs

InitRead ==
    \E csv \in ReadInputs :
        LET r == initialize_run(DM0, csv)
        IN /\ experiments_df = r.dm.experiments_df
           /\ trials_df = r.dm.trials_df
           /\ runs_df = r.dm.runs_df
           /\ initialized = r.dm.initialized
           /\ dm_stats_cache = <<>>
           /\ svc_stats_cache = <<>>
           /\ svc_cost_cache = <<>>
           /\ pc = "idle"
           /\ ld = NoLocals
           /\ last = Call("DataManager.initialize", <<>>, Ok(None))
           /\ pending = NothingPending
           /\ paging = NoPaging

Str_AB == <<65, 66>>
Str_abc == <<97, 98, 99>>

Prefixes == {Str_ab, Str_AB, Str_abc, Str_a, Str_fi, <<>>}

\* SearchService.get_suggestions called as such, with any string
SearchService_get_suggestions(prefix) ==
    /\ last' = Call("SearchService.get_suggestions", <<prefix>>, get_suggestions(DMnow, prefix))
    /\ UNCHANGED <<tables, caches, pc, ld, pending, paging>>

NextRead ==
    \/ \E e \in ExpArgs : GET_experiment(e)
    \/ \E e \in ExpArgs : GET_accuracy_curve(e)
    \/ \E t \in TrialArgs : GET_trial_runs(t)
    \/ \E t \in TrialArgs : GET_trial(t)
    \/ \E days \in 1..MaxLimit : GET_daily_costs(days)
    \/ GET_anomalies
    \/ GET_trends
    \/ \E q \in Queries, limit \in 1..MaxLimit : GET_search(q, limit)
    \/ \E prefix \in Prefixes : SearchService_get_suggestions(prefix)

SpecRead == InitRead /\ [][NextRead]_vars

\* the trials an accuracy curve is about: those of the experiment that are
\* finished and have an accuracy
CurveTrials(e) ==
    {i \in TrialIdx : /\ trials_df.rows[i]["experiment_id"] = e
                      /\ trials_df.rows[i]["status"] = "finished"
                      /\ trials_df.rows[i]["accuracy"] # NaN}

\* the row of the trial with this id
TrialRow(id) == trials_df.rows[CHOOSE i \in TrialIdx : trials_df.rows[i]["id"] = id]

\* t1 is not after t2; a missing timestamp comes after every other
NotAfter(t1, t2) == t2 = NaN \/ (t1 # NaN /\ t1 <= t2)

\* C11: the accuracy curve of an experiment holds exactly the trials of that
\* experiment that are finished and have an accuracy, each once, in
\* non-decreasing order of timestamp.
C11_AccuracyCurve ==
    last.op = "GET /experiments/{id}/accuracy-curve" =>
        LET e == last.args[1]
            curve == last.result.value
        IN /\ last.result.raised = ""
           /\ Len(curve) = Cardinality(CurveTrials(e))
           /\ {curve[k].trial_id : k \in 1..Len(curve)}
                = {trials_df.rows[i]["id"] : i \in CurveTrials(e)}
           /\ \A k \in 1..Len(curve) :
                /\ curve[k].status = "finished"
                /\ curve[k].accuracy # NaN
                /\ curve[k].accuracy = TrialRow(curve[k].trial_id)["accuracy"]
                /\ curve[k].timestamp = isoformat(TrialRow(curve[k].trial_id)["created_at"])
           /\ \A j \in 1..Len(curve) : \A k \in (j + 1)..Len(curve) :
                NotAfter(TrialRow(curve[j].trial_id)["created_at"],
                         TrialRow(curve[k].trial_id)["created_at"])

\* the experiments, trials and runs with a given id / of a given trial
ExpsWithId(id) == {i \in ExpIdx : experiments_df.rows[i]["id"] = id}
TrialsWithId(id) == {i \in TrialIdx : trials_df.rows[i]["id"] = id}
RunsOfTrial(id) == {i \in RunIdx : runs_df.rows[i]["trial_id"] = id}

\* the experiment lookup answers with the experiment, or with 404
ExperimentLookupOk ==
    last.op = "GET /experiments/{id}" =>
        IF ExpsWithId(last.args[1]) = {} THEN last.result = NotFound
        ELSE /\ last.result.raised = ""
             /\ last.result.value["id"] = last.args[1]
             /\ \E i \in ExpsWithId(last.args[1]) :
                    \A c \in {"name", "project_id", "created_at"} :
                        last.result.value[c] = experiments_df.rows[i][c]

\* the trial lookup answers with the trial and the rollups of its runs when
\* the trial and its experiment exist, and with 404 when the trial does not
TrialLookupOk ==
    last.op = "GET /trials/{id}" =>
        IF TrialsWithId(last.args[1]) = {} THEN last.result = NotFound
        ELSE (ExpsWithId(TrialRow(last.args[1])["experiment_id"]) # {}) =>
                /\ last.result.raised = ""
                /\ last.result.value["id"] = last.args[1]
                /\ last.result.value["status"] = TrialRow(last.args[1])["status"]
                /\ RunsOfTrial(last.args[1]) # {} =>
                     /\ last.result.value["total_runs"] = Cardinality(RunsOfTrial(last.args[1]))
                     /\ last.result.value["total_cost"]
                          = SumOver([i \in RunIdx |-> runs_df.rows[i]["costs"]], RunsOfTrial(last.args[1]))

\* C12: a lookup by id returns the entity when the id exists and a not-found
\* result (404) when it does not; for an existing trial whose experiment
\* exists the trial comes back with its run rollups and nothing is raised.
C12_LookupById == ExperimentLookupOk /\ TrialLookupOk

\* C13: every run that TrialService.get_trial_runs returns carries
\* cost_per_token = costs / tokens when it has tokens and exactly 0 when it
\* has none, and the call raises nothing.
C13_CostPerToken ==
    last.op = "GET /trials/{id}/runs" =>
        /\ last.result.raised = ""
        /\ Len(last.result.value.runs) = Cardinality(RunsOfTrial(last.args[1]))
        /\ \A k \in 1..Len(last.result.value.runs) :
             LET run == last.result.value.runs[k]
             IN /\ run["trial_id"] = last.args[1]
                /\ IF run["tokens"] > 0
                   THEN IsQuotient(run["cost_per_token"], run["costs"], run["tokens"])
                   ELSE run["tokens"] = 0 /\ run["cost_per_token"] = <<0, 1>>

\* a trial with a run that has tokens and a run that has none
C13_Witness ==
    /\ last.op = "GET /trials/{id}/runs"
    /\ last.result.raised = ""
    /\ \E k \in 1..Len(last.result.value.runs) :
         /\ last.result.value.runs[k]["tokens"] = 0
         /\ last.result.value.runs[k]["costs"] > 0
    /\ \E k \in 1..Len(last.result.value.runs) :
         /\ last.result.value.runs[k]["tokens"] > 0
         /\ last.result.value.runs[k]["cost_per_token"] = <<1, 20>>

\* the names and project ids that start with the prefix, case apart
Suggestible(prefix) ==
    {w \in {experiments_df.rows[i]["name"] : i \in ExpIdx}
           \cup {experiments_df.rows[i]["project_id"] : i \in ExpIdx} :
        /\ Len(w) >= Len(prefix)
        /\ \A k \in 1..Len(prefix) : lower(w[k]) = lower(prefix[k])}

\* C14: for a prefix of two or more characters get_suggestions returns, in
\* sorted order and without duplicates, the first 10 of the experiment names
\* and project ids that start with the prefix when both are lower-cased; for
\* a shorter prefix it returns the empty list.
C14_Suggestions ==
    last.op = "SearchService.get_suggestions" =>
        LET prefix == last.args[1]
            out == last.result.value
        IN /\ last.result.raised = ""
           /\ Len(prefix) < 2 => out = <<>>
           /\ Len(prefix) >= 2 =>
                /\ \A k \in 1..Len(out) : out[k] \in Suggestible(prefix)
                /\ \A k \in 1..(Len(out) - 1) : str_less(out[k], out[k + 1])
                /\ Len(out) = IF Cardinality(Suggestible(prefix)) < 10
                              THEN Cardinality(Suggestible(prefix)) ELSE 10
                /\ \A w \in Suggestible(prefix) :
                     \/ \E k \in 1..Len(out) : out[k] = w
                     \/ \A k \in 1..Len(out) : str_less(out[k], w)

\* more than ten candidates, of both cases, a name that is also a project id:
\* ten come back, the capital ones first
C14_Witness ==
    /\ last.op = "SearchService.get_suggestions"
    /\ last.args[1] = Str_AB
    /\ Cardinality(Suggestible(Str_AB)) > 10
    /\ Len(last.result.value) = 10
    /\ last.result.value[1] = <<65, 66, 100>>
    /\ last.result.value[2] = <<97, 98>>

\* s holds pat as a substring, letter case apart
ContainsLiterally(pat, s) ==
    \E i \in 0..Len(s) :
        /\ i + Len(pat) <= Len(s)
        /\ \A k \in 1..Len(pat) : lower(pat[k]) = lower(s[i + k])

\* C15: for a query of two or more characters search does not raise and
\* returns only experiments whose name or project id holds the query as a
\* literal substring, case apart, only trials whose status does, and at most
\* min(limit, 10) of each.
C15_SearchIsLiteral ==
    (last.op = "GET /search" /\ Len(last.args[1]) >= 2) =>
        LET q == last.args[1]
            limit == last.args[2]
            out == last.result.value
        IN /\ last.result.raised = ""
           /\ Len(out.experiments) <= limit /\ Len(out.experiments) <= 10
           /\ Len(out.trials) <= limit /\ Len(out.trials) <= 10
           /\ \A k \in 1..Len(out.experiments) :
                \/ ContainsLiterally(q, out.experiments[k]["name"])
                \/ ContainsLiterally(q, out.experiments[k]["project_id"])
           /\ \A k \in 1..Len(out.trials) :
                ContainsLiterally(q, chars(out.trials[k]["status"]))

\* the failed trials of an experiment, and the anomalies reported about it
FailedOf(e) ==
    {i \in TrialIdx : trials_df.rows[i]["experiment_id"] = e /\ trials_df.rows[i]["status"] = "failed"}

FailureAnomalies(e) ==
    {k \in 1..Len(last.result.value) :
        /\ last.result.value[k].type = "high_failure_rate"
        /\ last.result.value[k].experiment_id = e}

\* C16: detect_anomalies reports exactly one high_failure_rate anomaly, of
\* severity critical and with the experiment's id and its number of failed
\* trials, for each experiment with more than 2 failed trials, and none for
\* an experiment with 2 or fewer.
C16_HighFailureRate ==
    last.op = "GET /metrics/anomalies" =>
        /\ last.result.raised = ""
        /\ \A k \in 1..Len(last.result.value) :
             last.result.value[k].type = "high_failure_rate" =>
                 \E i \in TrialIdx :
                     trials_df.rows[i]["experiment_id"] = last.result.value[k].experiment_id
        /\ \A e \in {trials_df.rows[i]["experiment_id"] : i \in TrialIdx} :
             IF Cardinality(FailedOf(e)) > 2
             THEN /\ Cardinality(FailureAnomalies(e)) = 1
                  /\ \A k \in FailureAnomalies(e) :
                       /\ last.result.value[k].severity = "critical"
                       /\ last.result.value[k].failed_count = Cardinality(FailedOf(e))
             ELSE FailureAnomalies(e) = {}

\* one experiment with three failed trials is reported, one with exactly two
\* is not
C16_Witness ==
    /\ last.op = "GET /metrics/anomalies"
    /\ Cardinality(FailedOf(1)) = 3
    /\ Cardinality(FailedOf(2)) = 2
    /\ Cardinality(FailureAnomalies(1)) = 1
    /\ FailureAnomalies(2) = {}

\* C17: get_trends gives a non-null accuracy_improving whenever at least 5
\* finished trials exist and null only when fewer than 5 do, and the two
\* values of the rolling mean it compares are both defined.
C17_AccuracyTrend ==
    last.op = "GET /metrics/trends" =>
        /\ last.result.raised = ""
        /\ (last.result.value.accuracy_improving = None) <=> Cardinality(FinishedTrials) < 5
        /\ last.result.value.accuracy_improving # None =>
             /\ compared_means(DMnow).newest # NaNQ
             /\ compared_means(DMnow).earlier # NaNQ

\* the daily cost series of the last 7 days that get_trends reads
LastWeek == get_daily_costs(DMnow, 7).result.value

\* C18: cost_trend is "increasing" when the newest day of the last-7-day
\* series cost more than the oldest, "decreasing" when it cost less, and
\* "stable" otherwise: equal costs, or fewer than two days.
C18_CostTrend ==
    last.op = "GET /metrics/trends" =>
        /\ last.result.raised = ""
        /\ last.result.value.cost_trend =
             IF Len(LastWeek) >= 2 /\ LastWeek[Len(LastWeek)].total_cost > LastWeek[1].total_cost
             THEN "increasing"
             ELSE IF Len(LastWeek) >= 2
                     /\ LastWeek[Len(LastWeek)].total_cost < LastWeek[1].total_cost
                  THEN "decreasing"
                  ELSE "stable"

\* the runs of a calendar day, the days that have runs, and the experiments
\* whose trials have runs on a day
RunsOn(day) ==
    {i \in RunIdx : /\ runs_df.rows[i]["created_at"] # NaN
                    /\ dt_date(runs_df.rows[i]["created_at"]) = day}

RunDays ==
    {dt_date(runs_df.rows[i]["created_at"]) :
        i \in {j \in RunIdx : runs_df.rows[j]["created_at"] # NaN}}

ExperimentsOn(day) ==
    {trials_df.rows[t]["experiment_id"] :
        t \in {u \in TrialIdx : \E i \in RunsOn(day) :
                                   runs_df.rows[i]["trial_id"] = trials_df.rows[u]["id"]}} \ {NaN}

\* C19: get_daily_costs(N) returns at most N entries, one for each of the N
\* most recent calendar days that have a run, in strictly ascending date
\* order; an entry's total_cost and run_count are the sum of the costs and
\* the number of the runs of its day, and its experiment_count the number of
\* distinct experiments with a run that day, through the run's trial.
C19_DailyCosts ==
    last.op = "GET /dashboard/daily-costs" =>
        LET N == last.args[1]
            out == last.result.value
        IN /\ last.result.raised = ""
           /\ Len(out) = IF Cardinality(RunDays) < N THEN Cardinality(RunDays) ELSE N
           /\ \A k \in 1..(Len(out) - 1) : out[k].date.ymd < out[k + 1].date.ymd
           /\ \A k \in 1..Len(out) :
                /\ out[k].date.ymd \in RunDays
                /\ out[k].total_cost =
                     SumOver([i \in RunIdx |-> runs_df.rows[i]["costs"]], RunsOn(out[k].date.ymd))
                /\ out[k].run_count = Cardinality(RunsOn(out[k].date.ymd))
                /\ out[k].experiment_count = Cardinality(ExperimentsOn(out[k].date.ymd))
           /\ \A day \in RunDays :
                \/ \E k \in 1..Len(out) : out[k].date.ymd = day
                \/ \A k \in 1..Len(out) : day < out[k].date.ymd

\* more days with runs than asked for: the newest one comes back alone
C19_Witness ==
    /\ last.op = "GET /dashboard/daily-costs"
    /\ last.args[1] = 1
    /\ Cardinality(RunDays) >= 2
    /\ Len(last.result.value) = 1
    /\ \A day \in RunDays : day <= last.result.value[1].date.ymd

\* C20: a call of DataManager.initialize that raises leaves the three tables
\* and the _initialized flag as they were before the call, so that no table
\* holds newly loaded base data without its rollup columns.
C20_FailedLoadLeavesNothing ==
    [][(last'.op = "DataManager.initialize" /\ last'.result.raised # "")
          => UNCHANGED <<experiments_df, trials_df, runs_df, initialized>>]_vars

\* ------------------------------------------------- the aggregator, run again
\* the process after its startup load of one of the inputs; the call is
\* recorded with the files it read
AggInputs ==
    { Csv(ExpCsv(n, "name"), TrialCsv(t), RunCsv(r)) :
        n \in 0..MaxExps, t \in SeqsUpTo(TrialKinds, MaxTrials), r \in SeqsUpTo(RunKinds, MaxRuns) }

InitAgg ==
    \E csv \in AggInputs :
        LET r == initialize_run(DM0, csv)
        IN /\ experiments_df = r.dm.experiments_df
           /\ trials_df = r.dm.trials_df
           /\ runs_df = r.dm.runs_df
           /\ initialized = r.dm.initialized
           /\ dm_stats_cache = <<>>
           /\ svc_stats_cache = <<>>
           /\ svc_cost_cache = <<>>
           /\ pc = "idle"
           /\ ld = NoLocals
           /\ last = Call("DataManager.initialize", <<csv>>, Ok(None))
           /\ pending = NothingPending
           /\ paging = NoPaging

\* the columns a merge has suffixed
Suffixed(df) == {c \in df.cols : \E k \in TrialRollupCols \cup ExpRollupCols :
                                    c = suffix_x(k) \/ c = suffix_y(k)}

\* DataManager.initialize(), lines 73-140, over the files of the load before
initialize_same_files ==
    /\ pc = "idle"
    /\ LET r == initialize_run(DMnow, last.args[1])
       IN /\ SetDM(r.dm)
          /\ dm_stats_cache' = IF r.cleared THEN <<>> ELSE dm_stats_cache
          /\ last' = Call("DataManager.initialize", last.args,
                          IF r.raised = "" THEN Ok(None) ELSE Raised(r.raised))
          /\ pending' = [pending EXCEPT !.reload_stats = (r.raised = ""),
                                        !.reload_cost = (r.raised = "")]
    /\ UNCHANGED <<svc_stats_cache, svc_cost_cache, pc, ld, paging>>

\* DataManager._precompute_aggregations(), lines 144-188, called on the tables
\* the manager holds; followed here up to the first call that leaves suffixed
\* columns behind
DataManager_precompute_aggregations ==
    /\ pc = "idle"
    /\ Suffixed(trials_df) = {} /\ Suffixed(experiments_df) = {}
    /\ LET r == precompute_aggregations(DMnow)
       IN /\ SetDM(r.dm)
          /\ last' = Call("DataManager._precompute_aggregations", last.args,
                          IF r.raised = "" THEN Ok(None) ELSE Raised(r.raised))
    /\ UNCHANGED <<caches, pc, ld, pending, paging>>

NextAgg ==
    \/ initialize_same_files
    \/ DataManager_precompute_aggregations

SpecAgg == InitAgg /\ [][NextAgg]_vars

\* C21: the rollup computation run a second time on tables it has already
\* served (a second load of the same files, or _precompute_aggregations
\* again) completes without error and leaves trials and experiments with
\* the same columns and the same values, none duplicated or suffixed.
C21_AggregatorIdempotent ==
    [][(last.result.raised = ""
        /\ last'.op \in {"DataManager.initialize", "DataManager._precompute_aggregations"})
          => /\ last'.result.raised = ""
             /\ UNCHANGED <<experiments_df, trials_df>>]_vars

\* the aggregator has run over the tables as they are
Aggregated == last.op = "DataManager.initialize" /\ last.result.raised = ""

\* the finished trials of an experiment that carry an accuracy
ScoredTrialsOf(e) == TrialsOf(e) \cap ScoredTrials

\* C22: after the aggregator has run, the avg_accuracy of every experiment is
\* the mean accuracy of its finished trials only, whatever accuracy trials
\* of another status carry, and is null when it has no finished trial.
C22_AvgAccuracyOfFinished ==
    Aggregated =>
        \A i \in ExpIdx :
            LET e == experiments_df.rows[i]["id"]
                avg == experiments_df.rows[i]["avg_accuracy"]
            IN IF ScoredTrialsOf(e) = {} THEN avg = NaNQ
               ELSE IsQuotient(avg, SumOver(AccuracyOf, ScoredTrialsOf(e)),
                               Cardinality(ScoredTrialsOf(e)))

RunCostOf == [i \in RunIdx |-> runs_df.rows[i]["costs"]]
RunTokensOf == [i \in RunIdx |-> runs_df.rows[i]["tokens"]]
RunLatencyOf == [i \in RunIdx |-> runs_df.rows[i]["latency_ms"]]

\* C23: after the aggregator has run, every trial carries the sum of the
\* costs, the sum of the tokens, the mean latency and the number of the runs
\* whose trial_id is its id, and a trial without runs has 0 in all four:
\* none of them is null.
C23_TrialRollups ==
    Aggregated =>
        \A i \in TrialIdx :
            LET trial == trials_df.rows[i]
                runs == RunsOfTrial(trial["id"])
            IN /\ trial["total_cost"] = SumOver(RunCostOf, runs)
               /\ trial["total_tokens"] = SumOver(RunTokensOf, runs)
               /\ trial["run_count"] = Cardinality(runs)
               /\ IF runs = {} THEN trial["avg_latency_ms"] = <<0, 1>>
                  ELSE IsQuotient(trial["avg_latency_ms"], SumOver(RunLatencyOf, runs),
                                  Cardinality(runs))

\* the runs of the trials of an experiment
RunsOfExperiment(e) ==
    {i \in RunIdx : \E t \in TrialsOf(e) : trials_df.rows[t]["id"] = runs_df.rows[i]["trial_id"]}

\* every trial has its experiment and every run its trial
NoOrphans ==
    /\ \A t \in TrialIdx : trials_df.rows[t]["experiment_id"] \in ExpIds
    /\ \A i \in RunIdx : TrialsWithId(runs_df.rows[i]["trial_id"]) # {}

ExpCostOf == [i \in ExpIdx |-> experiments_df.rows[i]["total_cost"]]

\* C24: after the aggregator has run, every experiment's total_trials is the
\* number of its trials, total_runs the number of the runs of those trials
\* and total_cost the sum of their costs, 0 without trials; so, when no trial
\* and no run is orphaned, the total_cost of the experiments adds up to the
\* total_cost of the dashboard stats.
C24_ExperimentRollups ==
    /\ \A i \in ExpIdx :
          LET e == experiments_df.rows[i]["id"]
          IN /\ experiments_df.rows[i]["total_trials"] = Cardinality(TrialsOf(e))
             /\ experiments_df.rows[i]["total_runs"] = Cardinality(RunsOfExperiment(e))
             /\ experiments_df.rows[i]["total_cost"] = SumOver(RunCostOf, RunsOfExperiment(e))
    /\ (last.op = "DataManager.get_dashboard_stats" /\ NoOrphans) =>
          /\ last.result.raised = ""
          /\ last.result.value.total_cost = SumOver(ExpCostOf, ExpIdx)

\* two experiments, each with a trial that has a run, nothing orphaned, and
\* the dashboard total is the sum of the two
C24_Witness ==
    /\ last.op = "DataManager.get_dashboard_stats"
    /\ NoOrphans
    /\ Cardinality(ExpIdx) = 2
    /\ \A i \in ExpIdx : experiments_df.rows[i]["total_runs"] = 1
                         /\ experiments_df.rows[i]["total_cost"] = 5
    /\ last.result.value.total_cost = 10

\* the row the experiments table holds for a listed record
StoredRows(item) == {i \in ExpIdx : experiments_df.rows[i]["id"] = item["id"]}

\* C25: every record of the paginated list of ExperimentService.get_experiments
\* carries the total_trials, total_cost and avg_accuracy that the aggregator
\* stored for its experiment in the experiments table, the values the list
\* is sorted by under sort_by = total_cost.
C25_ListCarriesRollups ==
    last.op = "GET /experiments" =>
        /\ last.result.raised = ""
        /\ \A k \in 1..Len(last.result.value.items) :
             LET item == last.result.value.items[k]
             IN /\ StoredRows(item) # {}
                /\ \A i \in StoredRows(item) :
                     /\ item["total_trials"] = experiments_df.rows[i]["total_trials"]
                     /\ item["total_cost"] = experiments_df.rows[i]["total_cost"]
                     /\ IF experiments_df.rows[i]["avg_accuracy"] = NaNQ
                        THEN item["avg_accuracy"] \in {NaNQ, None}
                        ELSE item["avg_accuracy"] = experiments_df.rows[i]["avg_accuracy"]
====
